---- MODULE Spec2Model ----
(***************************************************************************)
(* Model of the daily guessing game server: the game_session and           *)
(* game_guess tables, and the handlers makeGuess and getGameSession as     *)
(* sequences of awaited database calls (each await is one step, so that    *)
(* concurrent requests interleave between the awaits exactly as the        *)
(* single-threaded event loop lets them).                                  *)
(***************************************************************************)
EXTENDS Integers, Sequences, FiniteSets, TLC

(* ------------------------------------------------------------------ *)
(* Bounds and fixed data                                               *)
(* ------------------------------------------------------------------ *)

\* Largest max_guesses a session is created with.
MaxGuesses == 2

\* Request handlers that may be in flight at once.
Procs == {"p1", "p2"}

\* Session identifiers callers use.
SessionIds == {"s1", "s2"}

\* The session the concurrent requests are all about.
ContendedSessionIds == {"s1"}

\* Rows of game_guess after which no new request is started when database
\* calls may fail (a failed update leaves the session open to more guesses).
MaxRows == 3

\* Largest evolution_count and largest generation of the entities feedback
\* is computed for.
MaxEvolutionCount == 3
MaxGeneration == 2

\* Longest list the external API answers a sync with, and the runs of
\* syncPokemonData that are followed.
MaxListLen == 2
MaxRuns == 2

\* The most species an evolution chain has.
MaxChainLen == 4

\* SQL NULL / JavaScript null of a scalar column. A nullable row (the
\* target_pokemon of a GameState) is the empty array <<>> when null and the
\* one-element array <<row>> otherwise.
NULL == "null"

\* The value of `new Date()` / defaultNow(): only its presence is observed.
Date == "date"

\* Rows of the pokemon table (the catalog); names are stored lowercase.
pokemonTable ==
  { [id |-> 1, name |-> "pikachu", type1 |-> "electric", type2 |-> NULL,
     evolution_count |-> 2, is_final_evolution |-> FALSE, color |-> "yellow",
     habitat |-> "forest", generation |-> 1],
    [id |-> 2, name |-> "charizard", type1 |-> "fire", type2 |-> "flying",
     evolution_count |-> 3, is_final_evolution |-> TRUE, color |-> "red",
     habitat |-> "mountain", generation |-> 1] }

\* Rows of the daily_pokemon table: each binds a date to one pokemon id.
dailyPokemonTable ==
  { [id |-> 1, date |-> "2024-01-01", pokemon_id |-> 1],
    [id |-> 2, date |-> "2024-01-02", pokemon_id |-> 2] }

\* The free-text names a player submits.
PokemonNames == {"pikachu", "Charizard", "missingno"}

\* The names the external API lists, as it may spell them.
ApiNames == {"pikachu", "Pikachu", "charizard"}

\* The free-text names a lookup is tried with.
LookupNames == PokemonNames \cup ApiNames \cup {"PIKACHU"}

\* The names above, grouped by what they spell: the names of one group
\* differ only in the case of their letters.
Spellings ==
  { {"pikachu", "Pikachu", "PIKACHU"}, {"charizard", "Charizard"}, {"missingno"} }

\* String.prototype.toLowerCase on the names above.
toLowerCase(name) ==
  CASE name = "Charizard" -> "charizard"
    [] name = "Pikachu" -> "pikachu"
    [] name = "PIKACHU" -> "pikachu"
    [] OTHER -> name

\* The error messages the handlers throw.
SessionNotFound == "Game session not found"
AlreadyCompleted == "Game session is already completed"
MaximumGuessesReached == "Maximum guesses reached"
PokemonNotFound == "Pokemon not found"
AlreadyExists == "Game session already exists"
DbFailure == "database error"
FetchFailure == "HTTP error"
NoDailyPokemon == "No daily Pokemon found for date"

\* The dates a day's target is asked for: the three days around the two that
\* have one, as YYYY-MM-DD or as a time of day with an offset, and the days
\* the server's clock may show.
Dates == {"2024-01-01", "2024-01-02", "2024-01-03"}

DateInputs == Dates \cup {"2024-01-01T23:30:00-01:00"}

\* new Date(date).toISOString().split('T')[0]: the day of the instant in UTC.
toISODate(date) ==
  CASE date = "2024-01-01T23:30:00-01:00" -> "2024-01-02"
    [] OTHER -> date

(* ------------------------------------------------------------------ *)
(* State                                                               *)
(* ------------------------------------------------------------------ *)

VARIABLES
  gameSessionTable,       \* the rows of game_session (db/schema.ts gameSessionTable)
  gameGuessTable,         \* the rows of game_guess in insertion (serial id) order
                          \* (db/schema.ts gameGuessTable)
  pc,                     \* per request: the await of the handler it is suspended at
  input,                  \* per request: the handler's input
  gameSessionResults,     \* per request: the joined rows read at the start
  guessedPokemonResults,  \* per request: the catalog rows the name resolved to
  updatedSessionResults,  \* per request: the session rows read back after the update
  result,                 \* per request: what the handler returned or threw
  feedbackInput,          \* <<guessed, target>> of a feedback computation, or <<>>
  feedbackOutput,         \* <<its GuessFeedback, tagged with the handler>>, or <<>>
  pokeApi,                \* what the external API lists (sync_pokemon_data.ts fetch)
  pokemonRows,            \* the rows of pokemon while syncPokemonData fills the
                          \* table, in insertion (serial id) order
  sync,                   \* the run of syncPokemonData: its position, locals,
                          \* console.error log and outcome
  resolved,               \* <<the name looked up and the rows it resolved to>>, or <<>>
  fetch,                  \* a call of fetchWithRetry: its implementation, position,
                          \* loop counter, the outcomes of its attempts, its outcome
  evolution               \* an evolution chain, the species looked for in it and
                          \* <<what an implementation computed for it>>, or <<>>

vars == <<gameSessionTable, gameGuessTable, pc, input, gameSessionResults,
          guessedPokemonResults, updatedSessionResults, result,
          feedbackInput, feedbackOutput, pokeApi, pokemonRows, sync, resolved,
          fetch, evolution>>

tables == <<gameSessionTable, gameGuessTable>>

feedbackVars == <<feedbackInput, feedbackOutput>>

syncVars == <<pokeApi, pokemonRows, sync, resolved, fetch, evolution>>

\* What the game's handlers, which only read the catalog, leave alone.
otherVars == <<feedbackVars, syncVars>>

gameVars == <<gameSessionTable, gameGuessTable, pc, input, gameSessionResults,
              guessedPokemonResults, updatedSessionResults, result>>

\* A set of rows as the array a select returns (one row at most is ever used).
AsArray(rows) == IF rows = {} THEN <<>> ELSE <<CHOOSE r \in rows : TRUE>>

(* ------------------------------------------------------------------ *)
(* Queries                                                             *)
(* ------------------------------------------------------------------ *)

\* The pokemon row with the given id (the inner join on pokemon.id).
PokemonById(id) == CHOOSE p \in pokemonTable : p.id = id

\* select from game_session where session_id = sid.
SelectSession(sid) == { s \in gameSessionTable : s.session_id = sid }

\* Mutant: the where clause on session_id is missing.
SelectSessionJoinAny(sid) ==
  { [game_session |-> j[1], pokemon |-> PokemonById(j[2].pokemon_id)] :
      j \in { k \in gameSessionTable \X dailyPokemonTable :
                /\ k[2].id = k[1].daily_pokemon_id
                /\ \E p \in pokemonTable : p.id = k[2].pokemon_id } }

\* select from game_session inner join daily_pokemon inner join pokemon
\* where session_id = sid: the joined rows (none when a side is missing).
SelectSessionJoin(sid) ==
  { [game_session |-> j[1], pokemon |-> PokemonById(j[2].pokemon_id)] :
      j \in { k \in SelectSession(sid) \X dailyPokemonTable :
                /\ k[2].id = k[1].daily_pokemon_id
                /\ \E p \in pokemonTable : p.id = k[2].pokemon_id } }

\* Mutant: the where clause on the name is missing.
SelectPokemonByNameAny(pokemon_name) == pokemonTable

\* select from pokemon where name = pokemon_name.toLowerCase().
SelectPokemonByName(pokemon_name) ==
  { p \in pokemonTable : p.name = toLowerCase(pokemon_name) }

\* Mutant: the where clause on session_id is missing.
SelectGuessesAll(sid) ==
  LET IsOf(row) == \E p \in pokemonTable : p.id = row.guessed_pokemon_id
      rows == SelectSeq(gameGuessTable, IsOf)
  IN [i \in 1..Len(rows) |->
        [game_guess |-> rows[i],
         pokemon |-> PokemonById(rows[i].guessed_pokemon_id)]]

\* The rows of select from game_guess inner join pokemon where
\* session_id = sid, listed in the order the table holds them.
SelectGuesses(sid) ==
  LET IsOf(row) == /\ row.session_id = sid
                   /\ \E p \in pokemonTable : p.id = row.guessed_pokemon_id
      rows == SelectSeq(gameGuessTable, IsOf)
  IN [i \in 1..Len(rows) |->
        [game_guess |-> rows[i],
         pokemon |-> PokemonById(rows[i].guessed_pokemon_id)]]

\* The arrays a select without ORDER BY may return for the given rows: the
\* database is free to return them in any order.
ReturnedOrders(rows) ==
  { [i \in 1..Len(rows) |-> rows[f[i]]] : f \in Permutations(1..Len(rows)) }

(* ------------------------------------------------------------------ *)
(* Feedback                                                            *)
(* ------------------------------------------------------------------ *)

\* The feedback makeGuess computes inline for one guessed pokemon.
makeGuessFeedback(pokemon, targetPokemon) ==
  [type1 |-> IF pokemon.type1 = targetPokemon.type1 THEN "correct" ELSE "incorrect",
   type2 |-> IF pokemon.type2 = targetPokemon.type2 THEN "correct" ELSE "incorrect",
   evolution_count |->
     IF pokemon.evolution_count = targetPokemon.evolution_count THEN "correct"
     ELSE IF pokemon.evolution_count < targetPokemon.evolution_count THEN "higher"
     ELSE "lower",
   is_final_evolution |->
     IF pokemon.is_final_evolution = targetPokemon.is_final_evolution
       THEN "correct" ELSE "incorrect",
   color |-> IF pokemon.color = targetPokemon.color THEN "correct" ELSE "incorrect",
   habitat |-> IF pokemon.habitat = targetPokemon.habitat THEN "correct" ELSE "incorrect",
   generation |->
     IF pokemon.generation = targetPokemon.generation THEN "correct"
     ELSE IF pokemon.generation < targetPokemon.generation THEN "higher"
     ELSE "lower"]

\* Mutant: an absent type2 or habitat is never 'correct'.
generateFeedbackNullIncorrect(guessedPokemon_, targetPokemon) ==
  [makeGuessFeedback(guessedPokemon_, targetPokemon) EXCEPT
     !.type2 = IF guessedPokemon_.type2 # NULL
                  /\ guessedPokemon_.type2 = targetPokemon.type2
               THEN "correct" ELSE "incorrect",
     !.habitat = IF guessedPokemon_.habitat # NULL
                    /\ guessedPokemon_.habitat = targetPokemon.habitat
                 THEN "correct" ELSE "incorrect"]

\* Mutant: 'higher' and 'lower' tell where the guess is, not the target.
generateFeedbackSwapped(guessedPokemon_, targetPokemon) ==
  [makeGuessFeedback(guessedPokemon_, targetPokemon) EXCEPT
     !.evolution_count =
        IF guessedPokemon_.evolution_count = targetPokemon.evolution_count THEN "correct"
        ELSE IF guessedPokemon_.evolution_count > targetPokemon.evolution_count THEN "higher"
        ELSE "lower",
     !.generation =
        IF guessedPokemon_.generation = targetPokemon.generation THEN "correct"
        ELSE IF guessedPokemon_.generation > targetPokemon.generation THEN "higher"
        ELSE "lower"]

\* Mutant: an absent type2 or habitat matches any value.
generateFeedbackNullWildcard(guessedPokemon_, targetPokemon) ==
  [makeGuessFeedback(guessedPokemon_, targetPokemon) EXCEPT
     !.type2 = IF guessedPokemon_.type2 = targetPokemon.type2
                  \/ guessedPokemon_.type2 = NULL \/ targetPokemon.type2 = NULL
               THEN "correct" ELSE "incorrect",
     !.habitat = IF guessedPokemon_.habitat = targetPokemon.habitat
                    \/ guessedPokemon_.habitat = NULL \/ targetPokemon.habitat = NULL
                 THEN "correct" ELSE "incorrect"]

\* Mutant: no verdict is given on a habitat that is absent on either side.
generateFeedbackSkipsAbsent(guessedPokemon_, targetPokemon) ==
  [makeGuessFeedback(guessedPokemon_, targetPokemon) EXCEPT
     !.habitat = IF guessedPokemon_.habitat = NULL \/ targetPokemon.habitat = NULL
                   THEN NULL
                 ELSE IF guessedPokemon_.habitat = targetPokemon.habitat
                   THEN "correct" ELSE "incorrect"]

\* generateFeedback of getGameSession.
generateFeedback(guessedPokemon_, targetPokemon) ==
  [type1 |-> IF guessedPokemon_.type1 = targetPokemon.type1 THEN "correct" ELSE "incorrect",
   type2 |-> IF guessedPokemon_.type2 = targetPokemon.type2 THEN "correct" ELSE "incorrect",
   evolution_count |->
     IF guessedPokemon_.evolution_count = targetPokemon.evolution_count THEN "correct"
     ELSE IF guessedPokemon_.evolution_count > targetPokemon.evolution_count THEN "lower"
     ELSE "higher",
   is_final_evolution |->
     IF guessedPokemon_.is_final_evolution = targetPokemon.is_final_evolution
       THEN "correct" ELSE "incorrect",
   color |-> IF guessedPokemon_.color = targetPokemon.color THEN "correct" ELSE "incorrect",
   habitat |-> IF guessedPokemon_.habitat = targetPokemon.habitat THEN "correct" ELSE "incorrect",
   generation |->
     IF guessedPokemon_.generation = targetPokemon.generation THEN "correct"
     ELSE IF guessedPokemon_.generation > targetPokemon.generation THEN "lower"
     ELSE "higher"]

\* Array.prototype.sort with (a, b) => a.guess.guess_number - b.guess.guess_number
\* (stable): each element is inserted after the elements not greater than it.
RECURSIVE SortByGuessNumber(_)
SortByGuessNumber(guesses) ==
  IF Len(guesses) <= 1 THEN guesses
  ELSE LET last == guesses[Len(guesses)]
           front == SortByGuessNumber(SubSeq(guesses, 1, Len(guesses) - 1))
           NotAfter(g) == g.guess.guess_number <= last.guess.guess_number
           After(g) == ~NotAfter(g)
       IN SelectSeq(front, NotAfter) \o <<last>> \o SelectSeq(front, After)

(* ------------------------------------------------------------------ *)
(* makeGuess: the values it computes                                   *)
(* ------------------------------------------------------------------ *)

\* Mutant: the admission checks are missing.
SessionErrorNone(session) == NULL

\* Mutant: only the guess budget is checked, not the completed flag.
SessionErrorLimitOnly(session) ==
  IF session.current_guesses >= session.max_guesses THEN MaximumGuessesReached
  ELSE NULL

\* Mutant: only the completed flag is checked, not the guess budget.
SessionErrorCompletedOnly(session) ==
  IF session.is_completed THEN AlreadyCompleted ELSE NULL

\* Mutant: the guess budget is checked before the completed flag.
SessionErrorLimitFirst(session) ==
  IF session.current_guesses >= session.max_guesses THEN MaximumGuessesReached
  ELSE IF session.is_completed THEN AlreadyCompleted
  ELSE NULL

\* The error the admission checks throw for the session row read, or NULL.
SessionError(session) ==
  IF session.is_completed THEN AlreadyCompleted
  ELSE IF session.current_guesses >= session.max_guesses THEN MaximumGuessesReached
  ELSE NULL

isCorrect(guessed, targetPokemon) == guessed.id = targetPokemon.id

\* Mutant: the increment is missing.
newGuessNumberStale(session) == session.current_guesses

newGuessNumber(session) == session.current_guesses + 1

\* Mutant: a correct guess does not complete the game.
isGameCompleteBudgetOnly(correct, guessNumber, session) ==
  guessNumber >= session.max_guesses

\* Mutant: the budget comparison is strict.
isGameCompleteStrict(correct, guessNumber, session) ==
  correct \/ guessNumber > session.max_guesses

isGameComplete(correct, guessNumber, session) ==
  correct \/ guessNumber >= session.max_guesses

\* Mutant: the guess record is never marked correct.
NewGuessRowNeverCorrect(session_id, guessed, session, targetPokemon) ==
  [session_id |-> session_id,
   guess_number |-> newGuessNumber(session),
   guessed_pokemon_id |-> guessed.id,
   is_correct |-> FALSE,
   created_at |-> Date]

\* The row makeGuess inserts into game_guess.
NewGuessRow(session_id, guessed, session, targetPokemon) ==
  [session_id |-> session_id,
   guess_number |-> newGuessNumber(session),
   guessed_pokemon_id |-> guessed.id,
   is_correct |-> isCorrect(guessed, targetPokemon),
   created_at |-> Date]

\* Mutant: completed_at is stamped on every guess.
UpdatedSessionRowAlwaysDated(row, guessed, session, targetPokemon) ==
  LET correct == isCorrect(guessed, targetPokemon)
      complete == isGameComplete(correct, newGuessNumber(session), session)
  IN [row EXCEPT !.current_guesses = newGuessNumber(session),
                 !.is_completed = complete,
                 !.is_won = correct,
                 !.completed_at = Date]

\* The columns makeGuess sets on the game_session rows of the session.
UpdatedSessionRow(row, guessed, session, targetPokemon) ==
  LET correct == isCorrect(guessed, targetPokemon)
      complete == isGameComplete(correct, newGuessNumber(session), session)
  IN [row EXCEPT !.current_guesses = newGuessNumber(session),
                 !.is_completed = complete,
                 !.is_won = correct,
                 !.completed_at = IF complete THEN Date ELSE NULL]

\* Mutant: the target is returned whatever the session's state.
makeGuessStateRevealing(updated, targetPokemon, guessResults) ==
  [session |-> updated,
   target_pokemon |-> <<targetPokemon>>,
   guesses |-> [i \in 1..Len(guessResults) |->
                  [guess |-> guessResults[i].game_guess,
                   pokemon |-> guessResults[i].pokemon,
                   feedback |-> makeGuessFeedback(guessResults[i].pokemon, targetPokemon)]],
   can_guess |-> ~updated.is_completed]

\* The GameState makeGuess returns.
makeGuessState(updated, targetPokemon, guessResults) ==
  [session |-> updated,
   target_pokemon |-> IF updated.is_completed THEN <<targetPokemon>> ELSE <<>>,
   guesses |-> [i \in 1..Len(guessResults) |->
                  [guess |-> guessResults[i].game_guess,
                   pokemon |-> guessResults[i].pokemon,
                   feedback |-> makeGuessFeedback(guessResults[i].pokemon, targetPokemon)]],
   can_guess |-> ~updated.is_completed]

\* Mutant: can_guess looks at the guess budget only.
getGameSessionStateBudgetOnly(session, targetPokemon, guessResults) ==
  [session |-> session,
   target_pokemon |-> IF session.is_completed THEN <<targetPokemon>> ELSE <<>>,
   guesses |-> SortByGuessNumber(
                 [i \in 1..Len(guessResults) |->
                    [guess |-> guessResults[i].game_guess,
                     pokemon |-> guessResults[i].pokemon,
                     feedback |-> generateFeedback(guessResults[i].pokemon, targetPokemon)]]),
   can_guess |-> session.current_guesses < session.max_guesses]

\* Mutant: the guesses are returned as the select gave them, unsorted.
getGameSessionStateUnsorted(session, targetPokemon, guessResults) ==
  [session |-> session,
   target_pokemon |-> IF session.is_completed THEN <<targetPokemon>> ELSE <<>>,
   guesses |-> [i \in 1..Len(guessResults) |->
                  [guess |-> guessResults[i].game_guess,
                   pokemon |-> guessResults[i].pokemon,
                   feedback |-> generateFeedback(guessResults[i].pokemon, targetPokemon)]],
   can_guess |-> ~session.is_completed /\ session.current_guesses < session.max_guesses]

\* The GameState getGameSession returns.
getGameSessionState(session, targetPokemon, guessResults) ==
  [session |-> session,
   target_pokemon |-> IF session.is_completed THEN <<targetPokemon>> ELSE <<>>,
   guesses |-> SortByGuessNumber(
                 [i \in 1..Len(guessResults) |->
                    [guess |-> guessResults[i].game_guess,
                     pokemon |-> guessResults[i].pokemon,
                     feedback |-> generateFeedback(guessResults[i].pokemon, targetPokemon)]]),
   can_guess |-> ~session.is_completed /\ session.current_guesses < session.max_guesses]

(* ------------------------------------------------------------------ *)
(* Initial state and the requests' bookkeeping                         *)
(* ------------------------------------------------------------------ *)

NoInput ==
  [session_id |-> NULL, pokemon_name |-> NULL, max_guesses |-> 0,
   date |-> NULL, now |-> NULL]

NoResult == [op |-> NULL, error |-> NULL, value |-> <<>>]

\* No run of syncPokemonData is under way. failed is what console.error
\* logged in the run: the index of each listed reference that failed, 0 for
\* the list itself. runs counts the runs started and clean tells whether the
\* last finished run logged no failure.
NoSync ==
  [pc |-> "idle", results |-> <<>>, index |-> 0, syncedCount |-> 0,
   processedCount |-> 0, pokemonData |-> NULL, failed |-> <<>>,
   result |-> <<>>, before |-> 0, runs |-> 0, clean |-> FALSE]

\* No call of fetchWithRetry is under way.
NoFetch == [by |-> NULL, pc |-> "idle", i |-> 0, attempts |-> <<>>, result |-> NULL]

\* No evolution chain is at hand.
NoEvolution == [chain |-> <<>>, targetName |-> 0, result |-> <<>>]

Init ==
  /\ gameSessionTable = {}
  /\ gameGuessTable = <<>>
  /\ pc = [p \in Procs |-> "idle"]
  /\ input = [p \in Procs |-> NoInput]
  /\ gameSessionResults = [p \in Procs |-> <<>>]
  /\ guessedPokemonResults = [p \in Procs |-> <<>>]
  /\ updatedSessionResults = [p \in Procs |-> <<>>]
  /\ result = [p \in Procs |-> NoResult]
  /\ feedbackInput = <<>>
  /\ feedbackOutput = <<>>
  /\ pokeApi = <<>>
  /\ pokemonRows = <<>>
  /\ sync = NoSync
  /\ resolved = <<>>
  /\ fetch = NoFetch
  /\ evolution = NoEvolution

\* The handler of request p throws: the promise rejects with the message.
Throw(p, op, message) ==
  /\ pc' = [pc EXCEPT ![p] = "done"]
  /\ result' = [result EXCEPT ![p] = [op |-> op, error |-> message, value |-> <<>>]]

\* The handler of request p returns the value.
Resolve(p, op, value) ==
  /\ pc' = [pc EXCEPT ![p] = "done"]
  /\ result' = [result EXCEPT ![p] = [op |-> op, error |-> NULL, value |-> <<value>>]]

\* The caller takes the outcome; the request slot is free for the next call.
Return(p) ==
  /\ pc[p] = "done"
  /\ pc' = [pc EXCEPT ![p] = "idle"]
  /\ input' = [input EXCEPT ![p] = NoInput]
  /\ gameSessionResults' = [gameSessionResults EXCEPT ![p] = <<>>]
  /\ guessedPokemonResults' = [guessedPokemonResults EXCEPT ![p] = <<>>]
  /\ updatedSessionResults' = [updatedSessionResults EXCEPT ![p] = <<>>]
  /\ result' = [result EXCEPT ![p] = NoResult]
  /\ UNCHANGED tables
  /\ UNCHANGED otherVars

(* ------------------------------------------------------------------ *)
(* createGameSession                                                   *)
(* ------------------------------------------------------------------ *)

\* Mutant: completed_at defaults to the insertion time, as created_at does.
NewSessionRowStamped(session_id, daily_pokemon_id, max_guesses) ==
  [session_id |-> session_id,
   daily_pokemon_id |-> daily_pokemon_id,
   max_guesses |-> max_guesses,
   current_guesses |-> 0,
   is_completed |-> FALSE,
   is_won |-> FALSE,
   created_at |-> Date,
   completed_at |-> Date]

\* The row a new session starts with (the table's column defaults).
NewSessionRow(session_id, daily_pokemon_id, max_guesses) ==
  [session_id |-> session_id,
   daily_pokemon_id |-> daily_pokemon_id,
   max_guesses |-> max_guesses,
   current_guesses |-> 0,
   is_completed |-> FALSE,
   is_won |-> FALSE,
   created_at |-> Date,
   completed_at |-> NULL]

\* createGameSession({session_id, max_guesses}) against the day's target:
\* insert-if-absent, in one step.
createGameSession(p, session_id, max_guesses, daily_pokemon_id) ==
  /\ pc[p] = "idle"
  /\ input' = [input EXCEPT ![p] = [session_id |-> session_id,
                                    pokemon_name |-> NULL,
                                    max_guesses |-> max_guesses,
                                    date |-> NULL, now |-> NULL]]
  /\ IF SelectSession(session_id) # {}
       THEN /\ Throw(p, "createGameSession", AlreadyExists)
            /\ UNCHANGED gameSessionTable
       ELSE LET row == NewSessionRow(session_id, daily_pokemon_id, max_guesses)
            IN /\ gameSessionTable' = gameSessionTable \cup {row}
               /\ Resolve(p, "createGameSession", row)
  /\ UNCHANGED <<gameGuessTable, gameSessionResults, guessedPokemonResults,
                 updatedSessionResults>>
  /\ UNCHANGED otherVars

(* ------------------------------------------------------------------ *)
(* makeGuess, one action per awaited database call                     *)
(* ------------------------------------------------------------------ *)

\* The call, its first select (session joined with its target) and the
\* admission checks on the row read.
makeGuessSelectSession(p, session_id, pokemon_name) ==
  /\ pc[p] = "idle"
  /\ input' = [input EXCEPT ![p] = [session_id |-> session_id,
                                    pokemon_name |-> pokemon_name,
                                    max_guesses |-> 0,
                                    date |-> NULL, now |-> NULL]]
  /\ LET results == AsArray(SelectSessionJoin(session_id))
     IN /\ gameSessionResults' = [gameSessionResults EXCEPT ![p] = results]
        /\ IF Len(results) = 0
             THEN Throw(p, "makeGuess", SessionNotFound)
           ELSE IF SessionError(results[1].game_session) # NULL
             THEN Throw(p, "makeGuess", SessionError(results[1].game_session))
           ELSE /\ pc' = [pc EXCEPT ![p] = "selectPokemon"]
                /\ UNCHANGED result
  /\ UNCHANGED <<tables, guessedPokemonResults, updatedSessionResults>>
  /\ UNCHANGED otherVars

\* The catalog lookup of the guessed name.
makeGuessSelectPokemon(p) ==
  /\ pc[p] = "selectPokemon"
  /\ LET results == AsArray(SelectPokemonByName(input[p].pokemon_name))
     IN /\ guessedPokemonResults' = [guessedPokemonResults EXCEPT ![p] = results]
        /\ IF Len(results) = 0
             THEN Throw(p, "makeGuess", PokemonNotFound)
             ELSE /\ pc' = [pc EXCEPT ![p] = "insertGuess"]
                  /\ UNCHANGED result
  /\ UNCHANGED <<tables, input, gameSessionResults, updatedSessionResults>>
  /\ UNCHANGED otherVars

\* Mutant: the insert is an upsert on (session_id, guess_number).
makeGuessInsertGuessUpsert(p) ==
  /\ pc[p] = "insertGuess"
  /\ LET new == NewGuessRow(input[p].session_id, guessedPokemonResults[p][1],
                            gameSessionResults[p][1].game_session,
                            gameSessionResults[p][1].pokemon)
         Same(i) == /\ gameGuessTable[i].session_id = new.session_id
                    /\ gameGuessTable[i].guess_number = new.guess_number
     IN gameGuessTable' =
          IF \E i \in 1..Len(gameGuessTable) : Same(i)
            THEN [i \in 1..Len(gameGuessTable) |->
                    IF Same(i) THEN new ELSE gameGuessTable[i]]
            ELSE Append(gameGuessTable, new)
  /\ pc' = [pc EXCEPT ![p] = "updateSession"]
  /\ UNCHANGED <<gameSessionTable, input, gameSessionResults,
                 guessedPokemonResults, updatedSessionResults, result>>
  /\ UNCHANGED otherVars

\* The insert of the guess record.
makeGuessInsertGuess(p) ==
  /\ pc[p] = "insertGuess"
  /\ gameGuessTable' =
       Append(gameGuessTable,
              NewGuessRow(input[p].session_id, guessedPokemonResults[p][1],
                          gameSessionResults[p][1].game_session,
                          gameSessionResults[p][1].pokemon))
  /\ pc' = [pc EXCEPT ![p] = "updateSession"]
  /\ UNCHANGED <<gameSessionTable, input, gameSessionResults,
                 guessedPokemonResults, updatedSessionResults, result>>
  /\ UNCHANGED otherVars

\* Mutant: the update has no where clause.
makeGuessUpdateSessionAll(p) ==
  /\ pc[p] = "updateSession"
  /\ gameSessionTable' =
       { UpdatedSessionRow(row, guessedPokemonResults[p][1],
                           gameSessionResults[p][1].game_session,
                           gameSessionResults[p][1].pokemon)
           : row \in gameSessionTable }
  /\ pc' = [pc EXCEPT ![p] = "selectUpdated"]
  /\ UNCHANGED <<gameGuessTable, input, gameSessionResults,
                 guessedPokemonResults, updatedSessionResults, result>>
  /\ UNCHANGED otherVars

\* The update of the session's rows.
makeGuessUpdateSession(p) ==
  /\ pc[p] = "updateSession"
  /\ gameSessionTable' =
       { IF row.session_id = input[p].session_id
           THEN UpdatedSessionRow(row, guessedPokemonResults[p][1],
                                  gameSessionResults[p][1].game_session,
                                  gameSessionResults[p][1].pokemon)
           ELSE row : row \in gameSessionTable }
  /\ pc' = [pc EXCEPT ![p] = "selectUpdated"]
  /\ UNCHANGED <<gameGuessTable, input, gameSessionResults,
                 guessedPokemonResults, updatedSessionResults, result>>
  /\ UNCHANGED otherVars

\* The read-back of the session row.
makeGuessSelectUpdated(p) ==
  /\ pc[p] = "selectUpdated"
  /\ updatedSessionResults' =
       [updatedSessionResults EXCEPT ![p] = AsArray(SelectSession(input[p].session_id))]
  /\ pc' = [pc EXCEPT ![p] = "selectGuesses"]
  /\ UNCHANGED <<tables, input, gameSessionResults, guessedPokemonResults, result>>
  /\ UNCHANGED otherVars

\* The select of the session's guesses, which returns the array guessResults,
\* and the returned GameState.
makeGuessSelectGuesses(p, guessResults) ==
  /\ pc[p] = "selectGuesses"
  /\ Resolve(p, "makeGuess",
             makeGuessState(updatedSessionResults[p][1],
                            gameSessionResults[p][1].pokemon,
                            guessResults))
  /\ UNCHANGED <<tables, input, gameSessionResults, guessedPokemonResults,
                 updatedSessionResults>>
  /\ UNCHANGED otherVars

(* ------------------------------------------------------------------ *)
(* getGameSession, one action per awaited database call                *)
(* ------------------------------------------------------------------ *)

getGameSessionSelectSession(p, session_id) ==
  /\ pc[p] = "idle"
  /\ input' = [input EXCEPT ![p] = [session_id |-> session_id,
                                    pokemon_name |-> NULL,
                                    max_guesses |-> 0,
                                    date |-> NULL, now |-> NULL]]
  /\ LET results == AsArray(SelectSessionJoin(session_id))
     IN /\ gameSessionResults' = [gameSessionResults EXCEPT ![p] = results]
        /\ IF Len(results) = 0
             THEN Throw(p, "getGameSession", SessionNotFound)
             ELSE /\ pc' = [pc EXCEPT ![p] = "viewGuesses"]
                  /\ UNCHANGED result
  /\ UNCHANGED <<tables, guessedPokemonResults, updatedSessionResults>>
  /\ UNCHANGED otherVars

\* The select of the session's guesses, which returns the array guessResults,
\* the sort and the returned GameState.
getGameSessionSelectGuesses(p, guessResults) ==
  /\ pc[p] = "viewGuesses"
  /\ Resolve(p, "getGameSession",
             getGameSessionState(gameSessionResults[p][1].game_session,
                                 gameSessionResults[p][1].pokemon,
                                 guessResults))
  /\ UNCHANGED <<tables, input, gameSessionResults, guessedPokemonResults,
                 updatedSessionResults>>
  /\ UNCHANGED otherVars

(* ------------------------------------------------------------------ *)
(* getDailyPokemon                                                     *)
(* ------------------------------------------------------------------ *)

\* Mutant: the where clause on the date is missing.
SelectDailyJoinAny(dateString) ==
  { [daily_pokemon |-> d, pokemon |-> PokemonById(d.pokemon_id)] :
      d \in { e \in dailyPokemonTable :
                \E q \in pokemonTable : q.id = e.pokemon_id } }

\* select from daily_pokemon inner join pokemon where date = dateString.
SelectDailyJoin(dateString) ==
  { [daily_pokemon |-> d, pokemon |-> PokemonById(d.pokemon_id)] :
      d \in { e \in dailyPokemonTable :
                /\ e.date = dateString
                /\ \E q \in pokemonTable : q.id = e.pokemon_id } }

\* getDailyPokemon({date}) and getDailyPokemon() when the clock shows now:
\* one select, then the error or the pokemon of the first row.
getDailyPokemon(p, date, now) ==
  /\ pc[p] = "idle"
  /\ input' = [input EXCEPT ![p] = [NoInput EXCEPT !.date = date, !.now = now]]
  /\ LET dateString == toISODate(IF date # NULL THEN date ELSE now)
         results == AsArray(SelectDailyJoin(dateString))
     IN IF Len(results) = 0
          THEN Throw(p, "getDailyPokemon", NoDailyPokemon)
          ELSE Resolve(p, "getDailyPokemon", results[1].pokemon)
  /\ UNCHANGED <<tables, gameSessionResults, guessedPokemonResults,
                 updatedSessionResults>>
  /\ UNCHANGED otherVars

(* ------------------------------------------------------------------ *)
(* A failing database call                                             *)
(* ------------------------------------------------------------------ *)

\* The awaited database call request p is suspended at rejects: the handler's
\* catch block logs the error and rethrows it.
DbCallFails(p) ==
  /\ pc[p] \in {"selectPokemon", "insertGuess", "updateSession", "selectUpdated",
                "selectGuesses", "viewGuesses"}
  /\ Throw(p, IF pc[p] = "viewGuesses" THEN "getGameSession" ELSE "makeGuess", DbFailure)
  /\ UNCHANGED <<tables, input, gameSessionResults, guessedPokemonResults,
                 updatedSessionResults>>
  /\ UNCHANGED otherVars

(* ------------------------------------------------------------------ *)
(* A counter written directly in the table                             *)
(* ------------------------------------------------------------------ *)

\* db.update(gameSessionTable).set({ current_guesses }) on a session that has
\* no guess yet, as the test of the guess limit prepares its session; no
\* request is in flight.
setCurrentGuesses(session_id, current_guesses) ==
  /\ \A p \in Procs : pc[p] = "idle"
  /\ SelectSession(session_id) # {}
  /\ SelectGuesses(session_id) = <<>>
  /\ gameSessionTable' =
       { IF row.session_id = session_id
           THEN [row EXCEPT !.current_guesses = current_guesses]
           ELSE row : row \in gameSessionTable }
  /\ UNCHANGED <<gameGuessTable, pc, input, gameSessionResults,
                 guessedPokemonResults, updatedSessionResults, result>>
  /\ UNCHANGED otherVars

(* ------------------------------------------------------------------ *)
(* The feedback of one guess, computed on its own                      *)
(* ------------------------------------------------------------------ *)

\* The attributes of pokemon rows feedback reads: type2 and habitat are
\* nullable, evolution_count is a nonnegative and generation a positive
\* integer.
Entities ==
  [type1 : {"electric", "fire"},
   type2 : {NULL, "flying"},
   evolution_count : 0..MaxEvolutionCount,
   is_final_evolution : BOOLEAN,
   color : {"yellow", "red"},
   habitat : {NULL, "forest"},
   generation : 1..MaxGeneration]

\* A guessed and a target entity, and nothing stored.
InitFeedback ==
  /\ gameSessionTable = {}
  /\ gameGuessTable = <<>>
  /\ pc = [p \in Procs |-> "idle"]
  /\ input = [p \in Procs |-> NoInput]
  /\ gameSessionResults = [p \in Procs |-> <<>>]
  /\ guessedPokemonResults = [p \in Procs |-> <<>>]
  /\ updatedSessionResults = [p \in Procs |-> <<>>]
  /\ result = [p \in Procs |-> NoResult]
  /\ feedbackInput \in Entities \X Entities
  /\ feedbackOutput = <<>>
  /\ pokeApi = <<>>
  /\ pokemonRows = <<>>
  /\ sync = NoSync
  /\ resolved = <<>>
  /\ fetch = NoFetch
  /\ evolution = NoEvolution

\* The feedback object makeGuess builds for a guess.
makeGuessFeedbackCall ==
  /\ feedbackOutput = <<>>
  /\ feedbackOutput' =
       <<[by |-> "makeGuess",
          feedback |-> makeGuessFeedback(feedbackInput[1], feedbackInput[2])]>>
  /\ UNCHANGED <<tables, pc, input, gameSessionResults, guessedPokemonResults,
                 updatedSessionResults, result, feedbackInput>>
  /\ UNCHANGED syncVars

\* The call of generateFeedback getGameSession makes for a guess.
generateFeedbackCall ==
  /\ feedbackOutput = <<>>
  /\ feedbackOutput' =
       <<[by |-> "getGameSession",
          feedback |-> generateFeedback(feedbackInput[1], feedbackInput[2])]>>
  /\ UNCHANGED <<tables, pc, input, gameSessionResults, guessedPokemonResults,
                 updatedSessionResults, result, feedbackInput>>
  /\ UNCHANGED syncVars

(* ------------------------------------------------------------------ *)
(* syncPokemonData, one action per awaited call, and the catalog lookup *)
(* ------------------------------------------------------------------ *)

\* The lists of at most MaxListLen names the API may answer with.
ApiLists ==
  UNION { [1..n -> ApiNames] : n \in 0..MaxListLen }

\* Mutant: the name is compared as it was typed.
SelectByNameExact(rows, name) ==
  { i \in 1..Len(rows) : rows[i].name = name }

\* select from pokemon where name = name.toLowerCase(), on the rows given:
\* the serial ids of the rows found.
SelectByName(rows, name) ==
  { i \in 1..Len(rows) : rows[i].name = toLowerCase(name) }

\* The row syncPokemonData inserts for the details fetched.
SyncedRow(pokemonData) ==
  [name |-> toLowerCase(pokemonData), sprite_url |-> "fetched"]

\* A row that was in the table before any run.
ExistingRow == [name |-> "pikachu", sprite_url |-> "existing"]

\* The API lists some names; the table is empty or holds one row; nothing
\* of the game is stored.
InitSync ==
  /\ gameSessionTable = {}
  /\ gameGuessTable = <<>>
  /\ pc = [p \in Procs |-> "idle"]
  /\ input = [p \in Procs |-> NoInput]
  /\ gameSessionResults = [p \in Procs |-> <<>>]
  /\ guessedPokemonResults = [p \in Procs |-> <<>>]
  /\ updatedSessionResults = [p \in Procs |-> <<>>]
  /\ result = [p \in Procs |-> NoResult]
  /\ feedbackInput = <<>>
  /\ feedbackOutput = <<>>
  /\ pokeApi \in ApiLists
  /\ pokemonRows \in {<<>>, <<ExistingRow>>}
  /\ sync = NoSync
  /\ resolved = <<>>
  /\ fetch = NoFetch
  /\ evolution = NoEvolution

\* Mutant: the failure of one listed entity is rethrown and ends the run.
SyncNextAborting(s, failure) ==
  IF failure
    THEN [s EXCEPT !.pc = "done",
                   !.failed = Append(s.failed, s.index),
                   !.result = <<[error |-> FetchFailure, synced |-> 0]>>]
  ELSE IF s.index < Len(s.results)
    THEN [s EXCEPT !.pc = "check",
                   !.index = s.index + 1,
                   !.processedCount = s.processedCount + 1,
                   !.pokemonData = NULL]
  ELSE [s EXCEPT !.pc = "done",
                 !.pokemonData = NULL,
                 !.result = <<[error |-> NULL, synced |-> s.syncedCount]>>]

\* The for loop moves on: after a failure the catch block of the iteration
\* logs it with console.error; then the next listed reference is taken, or,
\* after the last one, the counts are returned.
SyncNext(s, failure) ==
  LET t == IF failure THEN [s EXCEPT !.failed = Append(s.failed, s.index)] ELSE s
  IN IF t.index < Len(t.results)
       THEN [t EXCEPT !.pc = "check",
                      !.index = t.index + 1,
                      !.processedCount = t.processedCount + 1,
                      !.pokemonData = NULL]
       ELSE [t EXCEPT !.pc = "done",
                      !.pokemonData = NULL,
                      !.result = <<[error |-> NULL, synced |-> t.syncedCount]>>]

\* The call and the fetch of the list: when it fails the outer catch block
\* logs the failure (entry 0 of the log) and rethrows the error.
syncPokemonDataFetchList(ok) ==
  /\ sync.pc = "idle"
  /\ sync.runs < MaxRuns
  /\ LET s == [sync EXCEPT !.runs = sync.runs + 1,
                           !.before = Len(pokemonRows),
                           !.results = IF ok THEN pokeApi ELSE <<>>]
     IN sync' = IF ok THEN SyncNext(s, FALSE)
                ELSE [s EXCEPT !.pc = "done",
                               !.failed = <<0>>,
                               !.result = <<[error |-> FetchFailure, synced |-> 0]>>]
  /\ UNCHANGED <<pokeApi, pokemonRows, resolved, fetch, evolution, gameVars, feedbackVars>>

\* Mutant: the check looks for the name as the API spells it.
syncPokemonDataCheckExistingExact(ok) ==
  /\ sync.pc = "check"
  /\ sync' =
       IF ~ok THEN SyncNext(sync, TRUE)
       ELSE IF SelectByNameExact(pokemonRows, sync.results[sync.index]) # {}
         THEN SyncNext(sync, FALSE)
       ELSE [sync EXCEPT !.pc = "fetchPokemon"]
  /\ UNCHANGED <<pokeApi, pokemonRows, resolved, fetch, evolution, gameVars, feedbackVars>>

\* The select that looks for the listed name in the table.
syncPokemonDataCheckExisting(ok) ==
  /\ sync.pc = "check"
  /\ sync' =
       IF ~ok THEN SyncNext(sync, TRUE)
       ELSE IF SelectByName(pokemonRows, sync.results[sync.index]) # {}
         THEN SyncNext(sync, FALSE)
       ELSE [sync EXCEPT !.pc = "fetchPokemon"]
  /\ UNCHANGED <<pokeApi, pokemonRows, resolved, fetch, evolution, gameVars, feedbackVars>>

\* The fetch of the entity's details: the API names it as it listed it.
syncPokemonDataFetchPokemon(ok) ==
  /\ sync.pc = "fetchPokemon"
  /\ sync' = IF ok THEN [sync EXCEPT !.pc = "fetchSpecies",
                                     !.pokemonData = sync.results[sync.index]]
             ELSE SyncNext(sync, TRUE)
  /\ UNCHANGED <<pokeApi, pokemonRows, resolved, fetch, evolution, gameVars, feedbackVars>>

\* The fetch of the species.
syncPokemonDataFetchSpecies(ok) ==
  /\ sync.pc = "fetchSpecies"
  /\ sync' = IF ok THEN [sync EXCEPT !.pc = "fetchEvolution"]
             ELSE SyncNext(sync, TRUE)
  /\ UNCHANGED <<pokeApi, pokemonRows, resolved, fetch, evolution, gameVars, feedbackVars>>

\* The fetch of the evolution chain.
syncPokemonDataFetchEvolution(ok) ==
  /\ sync.pc = "fetchEvolution"
  /\ sync' = IF ok THEN [sync EXCEPT !.pc = "insert"]
             ELSE SyncNext(sync, TRUE)
  /\ UNCHANGED <<pokeApi, pokemonRows, resolved, fetch, evolution, gameVars, feedbackVars>>

\* The insert of the row and the count of it.
syncPokemonDataInsert(ok) ==
  /\ sync.pc = "insert"
  /\ IF ok
       THEN /\ pokemonRows' = Append(pokemonRows, SyncedRow(sync.pokemonData))
            /\ sync' = SyncNext([sync EXCEPT !.syncedCount = sync.syncedCount + 1],
                                FALSE)
       ELSE /\ pokemonRows' = pokemonRows
            /\ sync' = SyncNext(sync, TRUE)
  /\ UNCHANGED <<pokeApi, resolved, fetch, evolution, gameVars, feedbackVars>>

\* The caller takes the outcome of the run.
syncPokemonDataReturn ==
  /\ sync.pc = "done"
  /\ sync' = [NoSync EXCEPT !.runs = sync.runs,
                            !.clean = /\ sync.failed = <<>>
                                      /\ sync.result[1].error = NULL]
  /\ UNCHANGED <<pokeApi, pokemonRows, resolved, fetch, evolution, gameVars, feedbackVars>>

\* Between runs, the lookup of makeGuess with a name a player typed.
resolveByName(name) ==
  /\ sync.pc = "idle"
  /\ resolved' = <<[name |-> name,
                    rows |-> { pokemonRows[i] : i \in SelectByName(pokemonRows, name) }]>>
  /\ UNCHANGED <<pokeApi, pokemonRows, sync, fetch, evolution, gameVars, feedbackVars>>

(* ------------------------------------------------------------------ *)
(* fetchWithRetry, one action per awaited call                         *)
(* ------------------------------------------------------------------ *)

\* The default of the retries parameter; no caller passes another value.
retries == 3

\* The files that define a fetchWithRetry.
FetchImplementations ==
  {"sync_pokemon_data", "get_all_pokemon", "create_game_session",
   "get_game_session.test"}

\* What an attempt may meet: a response that is ok, a response with status
\* 429, a response with another status that is not ok, a fetch that rejects.
FetchOutcomes == {"ok", "429", "status", "error"}

MaxRetriesExceeded == "Max retries exceeded"

\* The statement after the for loop: sync_pokemon_data.ts throws, the other
\* files have none and the function returns undefined.
fetchWithRetryAfterLoop(f) ==
  IF f.by = "sync_pokemon_data"
    THEN [f EXCEPT !.pc = "done", !.result = MaxRetriesExceeded]
    ELSE [f EXCEPT !.pc = "done", !.result = "undefined"]

\* The loop test i < retries.
fetchWithRetryLoop(f) ==
  IF f.i < retries THEN [f EXCEPT !.pc = "fetch"] ELSE fetchWithRetryAfterLoop(f)

\* The call fetchWithRetry(url) in one of the files.
fetchWithRetryCall(by) ==
  /\ fetch.pc = "idle"
  /\ fetch.by = NULL
  /\ fetch' = fetchWithRetryLoop([fetch EXCEPT !.by = by, !.i = 0])
  /\ UNCHANGED <<pokeApi, pokemonRows, sync, resolved, evolution, gameVars, feedbackVars>>

\* Mutant: the catch block never rethrows.
fetchWithRetryAttemptSwallows(outcome) ==
  /\ fetch.pc = "fetch"
  /\ LET f == [fetch EXCEPT !.attempts = Append(fetch.attempts, outcome)]
     IN fetch' =
          IF outcome = "ok" THEN [f EXCEPT !.pc = "done", !.result = "response"]
          ELSE [f EXCEPT !.pc = "delay"]
  /\ UNCHANGED <<pokeApi, pokemonRows, sync, resolved, evolution, gameVars, feedbackVars>>

\* await fetch(url) settles: an ok response is returned; on status 429
\* sync_pokemon_data.ts waits and continues; any other failure is thrown and
\* caught, and rethrown on the last round, else the function waits.
fetchWithRetryAttempt(outcome) ==
  /\ fetch.pc = "fetch"
  /\ LET f == [fetch EXCEPT !.attempts = Append(fetch.attempts, outcome)]
     IN fetch' =
          IF outcome = "ok" THEN [f EXCEPT !.pc = "done", !.result = "response"]
          ELSE IF outcome = "429" /\ f.by = "sync_pokemon_data"
            THEN [f EXCEPT !.pc = "delay"]
          ELSE IF f.i = retries - 1
            THEN [f EXCEPT !.pc = "done", !.result = FetchFailure]
          ELSE [f EXCEPT !.pc = "delay"]
  /\ UNCHANGED <<pokeApi, pokemonRows, sync, resolved, evolution, gameVars, feedbackVars>>

\* The timer of the delay fires: i++ and the loop test.
fetchWithRetryDelay ==
  /\ fetch.pc = "delay"
  /\ fetch' = fetchWithRetryLoop([fetch EXCEPT !.i = fetch.i + 1])
  /\ UNCHANGED <<pokeApi, pokemonRows, sync, resolved, evolution, gameVars, feedbackVars>>

(* ------------------------------------------------------------------ *)
(* The evolution data syncPokemonData stores, by implementation        *)
(* ------------------------------------------------------------------ *)

\* The evolution chains of at most MaxChainLen species. A chain is held as
\* an array over its nodes: node 1 is the root (chain.chain), chain[j] is the
\* node whose evolves_to holds node j (0 for the root), and the evolves_to of
\* a node lists its nodes in index order. The species of node j is named j
\* (the API names each species once, in one spelling, and the id of a
\* pokemon is the id of its species); 0 names a species not in the chain.
Chains ==
  UNION { { c \in [1..n -> 0..(n - 1)] :
              c[1] = 0 /\ \A j \in 2..n : c[j] \in 1..(j - 1) } :
          n \in 1..MaxChainLen }

\* node.evolves_to
evolves_to(chain, node) ==
  SelectSeq([j \in 1..Len(chain) |-> j], LAMBDA j : chain[j] = node)

\* findInChain of getEvolutionInfo (sync_pokemon_data.ts): <<the result>>, or
\* <<>> for null.
RECURSIVE getEvolutionInfoFindInChain(_, _, _, _)
getEvolutionInfoFindInChain(chain, node, targetName, depth) ==
  IF node = targetName
    THEN <<[count |-> depth, isFinal |-> ~(Len(evolves_to(chain, node)) > 0)]>>
  ELSE LET found == SelectSeq(evolves_to(chain, node),
                              LAMBDA child :
                                getEvolutionInfoFindInChain(
                                  chain, child, targetName, depth + 1) # <<>>)
       IN IF found = <<>> THEN <<>>
          ELSE getEvolutionInfoFindInChain(chain, found[1], targetName, depth + 1)

\* getEvolutionInfo(chain, targetName), as the columns it is stored in.
getEvolutionInfo(chain, targetName) ==
  LET inChain == getEvolutionInfoFindInChain(chain, 1, targetName, 0)
      info == IF inChain # <<>> THEN inChain[1] ELSE [count |-> 0, isFinal |-> TRUE]
  IN [evolution_count |-> info.count, is_final_evolution |-> info.isFinal]

\* findPokemonPosition of getEvolutionCount (get_all_pokemon.ts).
RECURSIVE findPokemonPosition(_, _, _, _)
findPokemonPosition(chain, node, target, depth) ==
  IF node = target THEN depth
  ELSE LET found == SelectSeq(evolves_to(chain, node),
                              LAMBDA child :
                                findPokemonPosition(chain, child, target, depth + 1) # -1)
       IN IF found = <<>> THEN -1
          ELSE findPokemonPosition(chain, found[1], target, depth + 1)

getEvolutionCount(chain, targetName) ==
  LET position == findPokemonPosition(chain, 1, targetName, 0)
  IN IF position = -1 THEN 0 ELSE position

\* findInChain of isFinalEvolution (get_all_pokemon.ts): the first result of
\* a node of evolves_to that is not false, else false.
RECURSIVE isFinalEvolutionFindInChain(_, _, _)
isFinalEvolutionFindInChain(chain, node, targetName) ==
  IF node = targetName THEN Len(evolves_to(chain, node)) = 0
  ELSE \E k \in 1..Len(evolves_to(chain, node)) :
         isFinalEvolutionFindInChain(chain, evolves_to(chain, node)[k], targetName)

isFinalEvolution(chain, targetName) == isFinalEvolutionFindInChain(chain, 1, targetName)

\* traverseChain of calculateEvolutionData (create_game_session.ts): it
\* visits every node and assigns the three variables, held in found, at the
\* node of the pokemon's id; evolutions are the nodes still to visit at the
\* depth given.
RECURSIVE traverseChain(_, _, _, _, _)
RECURSIVE traverseEvolutions(_, _, _, _, _)
traverseChain(chain, node, pokemonId, depth, found) ==
  traverseEvolutions(
    chain, evolves_to(chain, node), pokemonId, depth + 1,
    IF node = pokemonId
      THEN [evolutionCount |-> depth, isTargetPokemon |-> TRUE,
            hasMoreEvolutions |-> Len(evolves_to(chain, node)) > 0]
      ELSE found)

traverseEvolutions(chain, evolutions, pokemonId, depth, found) ==
  IF evolutions = <<>> THEN found
  ELSE traverseEvolutions(
         chain, Tail(evolutions), pokemonId, depth,
         traverseChain(chain, Head(evolutions), pokemonId, depth, found))

calculateEvolutionData(chain, pokemonId) ==
  LET found == traverseChain(chain, 1, pokemonId, 0,
                             [evolutionCount |-> 0, isTargetPokemon |-> FALSE,
                              hasMoreEvolutions |-> FALSE])
  IN [evolution_count |-> found.evolutionCount,
      is_final_evolution |-> IF found.isTargetPokemon
                               THEN ~found.hasMoreEvolutions ELSE FALSE]

\* getAllPokemonInChain of getEvolutionData: the names of a node and of the
\* nodes below it, the node first; names is the array built so far and
\* evolutions the nodes still to push.
RECURSIVE getAllPokemonInChain(_, _)
RECURSIVE pushAllPokemonInChain(_, _, _)
getAllPokemonInChain(chain, node) ==
  pushAllPokemonInChain(chain, evolves_to(chain, node), <<node>>)

pushAllPokemonInChain(chain, evolutions, names) ==
  IF evolutions = <<>> THEN names
  ELSE pushAllPokemonInChain(
         chain, Tail(evolutions),
         names \o getAllPokemonInChain(chain, Head(evolutions)))

\* Array.prototype.findIndex for equality with name: zero-based, -1 if none.
findIndex(names, name) ==
  IF \E k \in 1..Len(names) : names[k] = name
    THEN (CHOOSE k \in 1..Len(names) :
            names[k] = name /\ \A l \in 1..(k - 1) : names[l] # name) - 1
    ELSE -1

\* getEvolutionData(evolutionChain, pokemonName).
getEvolutionData(chain, pokemonName) ==
  LET allPokemon == getAllPokemonInChain(chain, 1)
      pokemonIndex == findIndex(allPokemon, pokemonName)
  IN [evolution_count |-> pokemonIndex,
      is_final_evolution |-> pokemonIndex = Len(allPokemon) - 1]

\* An evolution chain has been fetched for a species; nothing is stored.
InitEvolution ==
  /\ gameSessionTable = {}
  /\ gameGuessTable = <<>>
  /\ pc = [p \in Procs |-> "idle"]
  /\ input = [p \in Procs |-> NoInput]
  /\ gameSessionResults = [p \in Procs |-> <<>>]
  /\ guessedPokemonResults = [p \in Procs |-> <<>>]
  /\ updatedSessionResults = [p \in Procs |-> <<>>]
  /\ result = [p \in Procs |-> NoResult]
  /\ feedbackInput = <<>>
  /\ feedbackOutput = <<>>
  /\ pokeApi = <<>>
  /\ pokemonRows = <<>>
  /\ sync = NoSync
  /\ resolved = <<>>
  /\ fetch = NoFetch
  /\ evolution \in { [chain |-> c, targetName |-> t, result |-> <<>>] :
                       c \in Chains, t \in 0..MaxChainLen }
  /\ evolution.targetName <= Len(evolution.chain)

\* What an implementation computed becomes the two columns of the row.
Computed(by, data) ==
  /\ evolution.chain # <<>>
  /\ evolution.result = <<>>
  /\ evolution' =
       [evolution EXCEPT !.result =
          <<[by |-> by,
             evolution_count |-> data.evolution_count,
             is_final_evolution |-> data.is_final_evolution]>>]
  /\ UNCHANGED <<pokeApi, pokemonRows, sync, resolved, fetch, gameVars, feedbackVars>>

\* syncPokemonData of sync_pokemon_data.ts.
getEvolutionInfoCall ==
  Computed("getEvolutionInfo", getEvolutionInfo(evolution.chain, evolution.targetName))

\* syncPokemonData of get_all_pokemon.ts.
getEvolutionCountCall ==
  Computed("getEvolutionCount",
           [evolution_count |-> getEvolutionCount(evolution.chain, evolution.targetName),
            is_final_evolution |-> isFinalEvolution(evolution.chain, evolution.targetName)])

\* syncPokemonData of create_game_session.ts.
calculateEvolutionDataCall ==
  Computed("calculateEvolutionData",
           calculateEvolutionData(evolution.chain, evolution.targetName))

\* syncPokemonData of the file that defines getEvolutionData.
getEvolutionDataCall ==
  Computed("getEvolutionData", getEvolutionData(evolution.chain, evolution.targetName))

(* ------------------------------------------------------------------ *)
(* Specifications                                                      *)
(* ------------------------------------------------------------------ *)

\* No other request is in flight or waiting to be collected.
Alone(p) == \A q \in Procs \ {p} : pc[q] = "idle"

\* A new request on one of the given sessions.
Call(p, sids) ==
  \/ \E sid \in sids, m \in 1..MaxGuesses, d \in dailyPokemonTable :
       createGameSession(p, sid, m, d.id)
  \/ \E sid \in sids, name \in PokemonNames : makeGuessSelectSession(p, sid, name)
  \/ \E sid \in sids : getGameSessionSelectSession(p, sid)

\* The next awaited call of a request in flight completes, or its outcome is
\* collected (the selects of the guesses apart).
Progress(p) ==
  \/ makeGuessSelectPokemon(p)
  \/ makeGuessInsertGuess(p)
  \/ makeGuessUpdateSession(p)
  \/ makeGuessSelectUpdated(p)
  \/ Return(p)

\* The select of the guesses completes, the rows returned in any order.
Step(p) ==
  \/ Progress(p)
  \/ \E guessResults \in ReturnedOrders(SelectGuesses(input[p].session_id)) :
       \/ makeGuessSelectGuesses(p, guessResults)
       \/ getGameSessionSelectGuesses(p, guessResults)

\* The select of the guesses completes, the rows returned in table order.
StepInTableOrder(p) ==
  \/ Progress(p)
  \/ makeGuessSelectGuesses(p, SelectGuesses(input[p].session_id))
  \/ getGameSessionSelectGuesses(p, SelectGuesses(input[p].session_id))

\* Requests are served one after the other.
Next == \E p \in Procs : (Alone(p) /\ Call(p, SessionIds)) \/ Step(p)

Spec == Init /\ [][Next]_vars

\* Requests on one session are served as they arrive and interleave at their
\* awaits. The returned GameState feeds back into no table and no decision,
\* so the order of its guesses is left out here: rows come in table order.
NextConcurrent ==
  \E p \in Procs : Call(p, ContendedSessionIds) \/ StepInTableOrder(p)

SpecConcurrent == Init /\ [][NextConcurrent]_vars

\* Requests are served one after the other and an awaited database call may
\* fail; new requests stop once game_guess holds MaxRows rows.
NextFailing ==
  \E p \in Procs :
    \/ Alone(p) /\ Len(gameGuessTable) < MaxRows /\ Call(p, SessionIds)
    \/ Step(p)
    \/ DbCallFails(p)

SpecFailing == Init /\ [][NextFailing]_vars

\* Requests are served one after the other, on a session whose counter may
\* have been written directly, up to one past the largest budget.
NextSeeded ==
  \/ \E p \in Procs : (Alone(p) /\ Call(p, ContendedSessionIds)) \/ Step(p)
  \/ \E sid \in ContendedSessionIds, n \in 0..(MaxGuesses + 1) :
       setCurrentGuesses(sid, n)

SpecSeeded == Init /\ [][NextSeeded]_vars

\* The session each client plays.
SessionOf == [p \in Procs |-> IF p = "p1" THEN "s1" ELSE "s2"]

\* Requests are served one after the other, on one session, and the day's
\* target is asked for, with a date or without.
NextDaily ==
  \E p \in Procs :
    \/ Alone(p) /\ Call(p, ContendedSessionIds)
    \/ Alone(p) /\ \E date \in DateInputs \cup {NULL}, now \in Dates :
                     getDailyPokemon(p, date, now)
    \/ Step(p)

SpecDaily == Init /\ [][NextDaily]_vars

\* Each client plays its own session; the requests of the two interleave at
\* their awaits.
NextParallel == \E p \in Procs : Call(p, {SessionOf[p]}) \/ Step(p)

SpecParallel == Init /\ [][NextParallel]_vars

\* Runs of syncPokemonData, one after the other, whose awaited calls may
\* fail, and lookups between them.
NextSync ==
  \/ \E ok \in BOOLEAN :
       \/ syncPokemonDataFetchList(ok)
       \/ syncPokemonDataCheckExisting(ok)
       \/ syncPokemonDataFetchPokemon(ok)
       \/ syncPokemonDataFetchSpecies(ok)
       \/ syncPokemonDataFetchEvolution(ok)
       \/ syncPokemonDataInsert(ok)
  \/ syncPokemonDataReturn
  \/ \E name \in LookupNames : resolveByName(name)

SpecSync == InitSync /\ [][NextSync]_vars

\* Requests on one session are served one after the other, and every awaited
\* database call completes and every settled promise is collected: the event
\* loop runs a continuation that is ready.
NextLive == \E p \in Procs : (Alone(p) /\ Call(p, ContendedSessionIds)) \/ Step(p)

SpecLive ==
  /\ Init
  /\ [][NextLive]_vars
  /\ \A p \in Procs : WF_vars(Step(p))

\* Requests on one session are served one after the other, but a client that
\* holds the GameState getGameSession gave it may keep it while the next
\* getGameSession is served: nothing but getGameSession runs meanwhile.
HoldsView(p) == pc[p] \in {"idle", "done"} /\ result[p].op \in {NULL, "getGameSession"}

NextViews ==
  \E p \in Procs :
    \/ Alone(p) /\ Call(p, ContendedSessionIds)
    \/ /\ \A q \in Procs \ {p} : HoldsView(q)
       /\ \E sid \in ContendedSessionIds : getGameSessionSelectSession(p, sid)
    \/ Step(p)

SpecViews == Init /\ [][NextViews]_vars

\* One call of fetchWithRetry, in any of the files, whose attempts meet any
\* outcome; a pending fetch settles and a timer set fires.
NextFetch ==
  \/ \E by \in FetchImplementations : fetchWithRetryCall(by)
  \/ \E outcome \in FetchOutcomes : fetchWithRetryAttempt(outcome)
  \/ fetchWithRetryDelay

SpecFetch == Init /\ [][NextFetch]_vars /\ WF_vars(NextFetch)

\* The evolution data of one species is computed, by any implementation.
NextEvolution ==
  \/ getEvolutionInfoCall
  \/ getEvolutionCountCall
  \/ calculateEvolutionDataCall
  \/ getEvolutionDataCall

SpecEvolution == InitEvolution /\ [][NextEvolution]_vars

\* Feedback is computed for a pair of entities, by either handler.
NextFeedback == makeGuessFeedbackCall \/ generateFeedbackCall

SpecFeedback == InitFeedback /\ [][NextFeedback]_vars

(* ------------------------------------------------------------------ *)
(* Properties                                                          *)
(* ------------------------------------------------------------------ *)

\* The guess records of a session, in table order.
Ledger(sid) ==
  LET IsOf(row) == row.session_id = sid
  IN SelectSeq(gameGuessTable, IsOf)

\* The target entity of a session row, through its daily target.
TargetOf(session) ==
  PokemonById((CHOOSE d \in dailyPokemonTable : d.id = session.daily_pokemon_id).pokemon_id)

\* Request p is a makeGuess that returned a GameState.
MadeGuess(p) ==
  /\ pc[p] = "done"
  /\ result[p].op = "makeGuess"
  /\ result[p].error = NULL

\* The guess of request p resolved to the session's target.
GuessedTarget(p) ==
  /\ Len(gameSessionResults[p]) > 0
  /\ Len(guessedPokemonResults[p]) > 0
  /\ guessedPokemonResults[p][1].id = gameSessionResults[p][1].pokemon.id

\* C1: under any interleaving of concurrent makeGuess calls, no two guess
\* records of one session share a sequence number.
C1_NoSharedSequenceNumber ==
  \A i, j \in 1..Len(gameGuessTable) :
    (i # j /\ gameGuessTable[i].session_id = gameGuessTable[j].session_id)
      => gameGuessTable[i].guess_number # gameGuessTable[j].guess_number

\* C2: no transition leaves a terminal state: a completed session stays
\* completed, keeps is_won and keeps completed_at set, whatever step comes next.
C2_TerminalStaysTerminal ==
  [][\A s \in gameSessionTable :
       s.is_completed =>
         \E t \in gameSessionTable' :
           /\ t.session_id = s.session_id
           /\ t.is_completed
           /\ t.is_won = s.is_won
           /\ t.completed_at # NULL]_vars

\* C3: with requests served one after the other, whenever no admission is
\* between its insert and its update, the guess numbers stored for a session
\* are exactly 1..current_guesses, each once.
C3_DenseSequenceNumbers ==
  (\A p \in Procs : pc[p] # "updateSession") =>
    \A s \in gameSessionTable :
      /\ Len(Ledger(s.session_id)) = s.current_guesses
      /\ { Ledger(s.session_id)[i].guess_number : i \in 1..Len(Ledger(s.session_id)) }
           = 1..s.current_guesses

C3_Witness ==
  /\ \A p \in Procs : pc[p] = "idle"
  /\ \E s \in gameSessionTable :
       /\ s.current_guesses = 2
       /\ Len(Ledger(s.session_id)) = 2

\* C4: in every reachable state, also under interleaved requests, every
\* session has current_guesses <= max_guesses.
C4_GuessesWithinBudget ==
  \A s \in gameSessionTable : s.current_guesses <= s.max_guesses

C4_Witness ==
  \E s \in gameSessionTable :
    /\ s.current_guesses = s.max_guesses
    /\ s.max_guesses >= 2
    /\ \E p \in Procs : pc[p] = "done" /\ result[p].error = AlreadyCompleted

\* C5: in every reachable state, also under interleaved requests, is_won
\* implies is_completed, and completed_at is set iff is_completed.
C5_WonImpliesCompleted ==
  \A s \in gameSessionTable :
    /\ s.is_won => s.is_completed
    /\ (s.completed_at # NULL) <=> s.is_completed

C5_Witness ==
  /\ \E s \in gameSessionTable : s.is_won /\ s.is_completed /\ s.completed_at # NULL
  /\ \E p \in Procs : pc[p] = "selectUpdated"

\* C6: the GameState returned by makeGuess and by getGameSession carries the
\* session's target exactly when the session is completed, and null otherwise.
C6_TargetHiddenUntilTerminal ==
  \A p \in Procs :
    (pc[p] = "done" /\ result[p].op \in {"makeGuess", "getGameSession"}
       /\ result[p].error = NULL) =>
      \A s \in SelectSession(input[p].session_id) :
        /\ result[p].value[1].session = s
        /\ result[p].value[1].target_pokemon =
             IF s.is_completed THEN <<TargetOf(s)>> ELSE <<>>

C6_Witness ==
  \E p \in Procs :
    /\ MadeGuess(p)
    /\ result[p].value[1].session.current_guesses >= 1
    /\ ~result[p].value[1].session.is_completed
    /\ result[p].value[1].target_pokemon = <<>>

\* C7: a makeGuess whose candidate is the session's target, admitted to an
\* active session, leaves the session completed and won, whatever the budget
\* left, and returns that state.
C7_CorrectGuessWins ==
  \A p \in Procs :
    GuessedTarget(p) =>
      /\ pc[p] \in {"selectUpdated", "selectGuesses", "done"} =>
           \A s \in SelectSession(input[p].session_id) :
             s.is_completed /\ s.is_won /\ s.completed_at # NULL
      /\ pc[p] = "done" =>
           /\ result[p].error = NULL
           /\ result[p].value[1].session.is_completed
           /\ result[p].value[1].session.is_won
           /\ ~result[p].value[1].can_guess

C7_Witness ==
  \E p \in Procs :
    /\ MadeGuess(p)
    /\ GuessedTarget(p)
    /\ result[p].value[1].session.is_won
    /\ result[p].value[1].session.max_guesses >= 2
    /\ result[p].value[1].session.current_guesses
         = result[p].value[1].session.max_guesses

\* C8: a makeGuess whose candidate is not the target, admitted to an active
\* session, leaves the session active (can_guess) when the new count is below
\* max_guesses, and completed, lost, with the target visible, when the new
\* count equals max_guesses.
C8_IncorrectGuessOutcome ==
  \A p \in Procs :
    (MadeGuess(p) /\ ~GuessedTarget(p)) =>
      LET v == result[p].value[1]
          read == gameSessionResults[p][1].game_session
      IN /\ v.session \in gameSessionTable
         /\ v.session.current_guesses = read.current_guesses + 1
         /\ IF v.session.current_guesses < v.session.max_guesses
              THEN /\ ~v.session.is_completed
                   /\ v.can_guess
              ELSE /\ v.session.current_guesses = v.session.max_guesses
                   /\ v.session.is_completed
                   /\ ~v.session.is_won
                   /\ ~v.can_guess
                   /\ v.target_pokemon = <<TargetOf(v.session)>>

C8_Witness ==
  \E p \in Procs :
    /\ MadeGuess(p)
    /\ ~GuessedTarget(p)
    /\ result[p].value[1].session.max_guesses >= 2
    /\ result[p].value[1].session.current_guesses
         = result[p].value[1].session.max_guesses
    /\ result[p].value[1].session.is_completed
    /\ ~result[p].value[1].session.is_won

\* C9: a makeGuess submitted to a completed session, with a known or an
\* unknown candidate, fails with the already-completed error and changes
\* neither table.
C9_TerminalSessionRejects ==
  [][\A p \in Procs :
       ( /\ pc[p] = "idle"
         /\ pc'[p] # "idle"
         /\ input'[p].pokemon_name # NULL
         /\ \E s \in SelectSession(input'[p].session_id) : s.is_completed )
       => /\ pc'[p] = "done"
          /\ result'[p].error = AlreadyCompleted
          /\ UNCHANGED tables]_vars

C9_Witness ==
  \E p \in Procs :
    /\ pc[p] = "done"
    /\ result[p].op = "makeGuess"
    /\ result[p].error = AlreadyCompleted
    /\ input[p].pokemon_name = "missingno"

\* C10: after a makeGuess that failed at any step, the guess record it was
\* to add is stored if and only if the session's counter was advanced by it
\* (both updated together, or neither changed).
C10_NoPartialMutation ==
  \A p \in Procs :
    ( /\ pc[p] = "done"
      /\ result[p].op = "makeGuess"
      /\ result[p].error # NULL
      /\ Len(gameSessionResults[p]) > 0 ) =>
      LET read == gameSessionResults[p][1].game_session
          inserted == \E i \in 1..Len(gameGuessTable) :
                        /\ gameGuessTable[i].session_id = read.session_id
                        /\ gameGuessTable[i].guess_number = read.current_guesses + 1
          advanced == \E s \in SelectSession(read.session_id) :
                        s.current_guesses = read.current_guesses + 1
      IN inserted <=> advanced


\* The name is the name of no catalog row, whatever its case.
Unresolvable(pokemon_name) ==
  \A q \in pokemonTable : q.name # toLowerCase(pokemon_name)

\* C11: a makeGuess on an active session whose candidate name resolves to no
\* catalog row passes the admission checks, then fails with the
\* pokemon-not-found error, and no step of it changes either table.
C11_UnknownCandidateRejected ==
  [][\A p \in Procs :
       ( /\ pc[p] \in {"idle", "selectPokemon"}
         /\ pc'[p] # pc[p]
         /\ input'[p].pokemon_name # NULL
         /\ Unresolvable(input'[p].pokemon_name)
         /\ \E s \in SelectSession(input'[p].session_id) :
              ~s.is_completed /\ s.current_guesses < s.max_guesses )
       => /\ UNCHANGED tables
          /\ pc[p] = "idle" => pc'[p] = "selectPokemon"
          /\ pc[p] = "selectPokemon" =>
               /\ pc'[p] = "done"
               /\ result'[p].op = "makeGuess"
               /\ result'[p].error = PokemonNotFound]_vars

C11_Witness ==
  \E p \in Procs :
    /\ pc[p] = "done"
    /\ result[p].op = "makeGuess"
    /\ result[p].error = PokemonNotFound
    /\ \E s \in SelectSession(input[p].session_id) :
         /\ s.current_guesses = 1
         /\ ~s.is_completed
         /\ Len(Ledger(s.session_id)) = 1

\* C12: makeGuess and getGameSession with a session id that matches no session
\* fail with the session-not-found error and change neither table.
C12_MissingSessionRejected ==
  [][\A p \in Procs :
       ( /\ pc[p] = "idle"
         /\ pc'[p] # "idle"
         /\ input'[p].max_guesses = 0
         /\ SelectSession(input'[p].session_id) = {} )
       => /\ pc'[p] = "done"
          /\ result'[p].op \in {"makeGuess", "getGameSession"}
          /\ result'[p].error = SessionNotFound
          /\ UNCHANGED tables]_vars

C12_Witness ==
  \E p \in Procs :
    /\ pc[p] = "done"
    /\ result[p].op = "makeGuess"
    /\ result[p].error = SessionNotFound
    /\ gameSessionTable # {}
    /\ SelectSession(input[p].session_id) = {}

\* C13: with requests served one after the other, no session is ever active
\* with current_guesses >= max_guesses, and no makeGuess ever fails with the
\* maximum-guesses error.
C13_GuessLimitUnreachable ==
  /\ \A s \in gameSessionTable :
       s.current_guesses >= s.max_guesses => s.is_completed
  /\ \A p \in Procs : result[p].error # MaximumGuessesReached

C13_Witness ==
  \E p \in Procs :
    /\ pc[p] = "done"
    /\ result[p].op = "makeGuess"
    /\ result[p].error = AlreadyCompleted
    /\ \E s \in SelectSession(input[p].session_id) :
         /\ s.current_guesses = s.max_guesses
         /\ ~s.is_won

\* C14: a makeGuess submitted to a session that is not completed and whose
\* current_guesses is at or above max_guesses, with a known or an unknown
\* candidate, fails with the maximum-guesses error and changes neither table.
C14_GuessLimitRejects ==
  [][\A p \in Procs :
       ( /\ pc[p] = "idle"
         /\ pc'[p] # "idle"
         /\ input'[p].pokemon_name # NULL
         /\ \E s \in SelectSession(input'[p].session_id) :
              ~s.is_completed /\ s.current_guesses >= s.max_guesses )
       => /\ pc'[p] = "done"
          /\ result'[p].op = "makeGuess"
          /\ result'[p].error = MaximumGuessesReached
          /\ UNCHANGED tables]_vars

C14_Witness ==
  \E p \in Procs :
    /\ pc[p] = "done"
    /\ result[p].op = "makeGuess"
    /\ result[p].error = MaximumGuessesReached
    /\ input[p].pokemon_name = "pikachu"
    /\ \E s \in SelectSession(input[p].session_id) :
         /\ ~s.is_completed
         /\ s.current_guesses = s.max_guesses
    /\ Ledger(input[p].session_id) = <<>>

\* The fields of a GuessFeedback, by the kind of their verdict.
CategoricalFields == {"type1", "type2", "is_final_evolution", "color", "habitat"}

NumericFields == {"evolution_count", "generation"}

\* C15: the feedback of an entity against itself is 'correct' on all seven
\* fields, also when its type2 or its habitat is absent.
C15_SelfFeedbackAllCorrect ==
  (feedbackOutput # <<>> /\ feedbackInput[1] = feedbackInput[2]) =>
    \A f \in CategoricalFields \cup NumericFields :
      feedbackOutput[1].feedback[f] = "correct"

C15_Witness ==
  /\ feedbackOutput # <<>>
  /\ feedbackOutput[1].by = "getGameSession"
  /\ feedbackInput[1] = feedbackInput[2]
  /\ feedbackInput[1].type2 = NULL
  /\ feedbackInput[1].habitat = NULL

\* C16: on evolution_count and generation the verdict is 'correct' iff the
\* two values are equal, 'higher' iff the target's value is greater than the
\* guess's and 'lower' iff it is less.
C16_NumericVerdicts ==
  feedbackOutput # <<>> =>
    \A f \in NumericFields :
      LET guessed == feedbackInput[1][f]
          target == feedbackInput[2][f]
          verdict == feedbackOutput[1].feedback[f]
      IN /\ verdict = "correct" <=> target = guessed
         /\ verdict = "higher" <=> target > guessed
         /\ verdict = "lower" <=> target < guessed

C16_Witness ==
  /\ feedbackOutput # <<>>
  /\ feedbackOutput[1].by = "makeGuess"
  /\ feedbackInput[1].evolution_count = 3
  /\ feedbackInput[2].evolution_count = 2
  /\ feedbackOutput[1].feedback.evolution_count = "lower"
  /\ feedbackOutput[1].feedback.generation = "higher"

\* C17: on type1, type2, is_final_evolution, color and habitat the verdict
\* is 'correct' iff the two values are equal and 'incorrect' otherwise: two
\* absent values are equal, an absent and a present value are not.
C17_CategoricalVerdicts ==
  feedbackOutput # <<>> =>
    \A f \in CategoricalFields :
      feedbackOutput[1].feedback[f] =
        IF feedbackInput[1][f] = feedbackInput[2][f] THEN "correct" ELSE "incorrect"

C17_Witness ==
  /\ feedbackOutput # <<>>
  /\ feedbackOutput[1].by = "getGameSession"
  /\ feedbackInput[1].type2 = NULL
  /\ feedbackInput[2].type2 # NULL
  /\ feedbackOutput[1].feedback.type2 = "incorrect"
  /\ feedbackInput[1].habitat = NULL
  /\ feedbackInput[2].habitat = NULL
  /\ feedbackOutput[1].feedback.habitat = "correct"

\* C18: for every pair of entities feedback can be computed; what is
\* computed has exactly the seven fields, 'correct' or 'incorrect' on the
\* categorical ones and 'correct', 'higher' or 'lower' on the numeric ones,
\* and computing it changes neither table nor its arguments.
C18_FeedbackTotalAndPure ==
  /\ [](feedbackOutput = <<>> /\ feedbackInput # <<>> => ENABLED NextFeedback)
  /\ [][feedbackOutput' # feedbackOutput =>
          /\ Len(feedbackOutput') = 1
          /\ DOMAIN feedbackOutput'[1].feedback = CategoricalFields \cup NumericFields
          /\ \A f \in CategoricalFields :
               feedbackOutput'[1].feedback[f] \in {"correct", "incorrect"}
          /\ \A f \in NumericFields :
               feedbackOutput'[1].feedback[f] \in {"correct", "higher", "lower"}
          /\ UNCHANGED <<tables, feedbackInput>>]_vars

C18_Witness ==
  /\ feedbackOutput # <<>>
  /\ feedbackOutput[1].by = "makeGuess"
  /\ gameSessionTable = {}
  /\ gameGuessTable = <<>>
  /\ feedbackInput[1].habitat = NULL
  /\ feedbackInput[2].habitat # NULL
  /\ feedbackInput[1].generation = MaxGeneration
  /\ feedbackInput[2].generation = 1
  /\ feedbackOutput[1].feedback.generation = "lower"

\* The guesses of a GameState are in ascending guess_number order.
Ascending(guesses) ==
  \A i \in 1..(Len(guesses) - 1) :
    guesses[i].guess.guess_number < guesses[i + 1].guess.guess_number

\* The guesses of a GameState are the game_guess rows of the session.
IsLedgerOf(guesses, sid) ==
  /\ Len(guesses) = Len(Ledger(sid))
  /\ { guesses[i].guess : i \in 1..Len(guesses) }
       = { Ledger(sid)[i] : i \in 1..Len(Ledger(sid)) }

\* C19: the GameState getGameSession returns lists the session's guesses in
\* ascending guess_number order, in whatever order the select returned the
\* rows.
C19_SessionViewSorted ==
  \A p \in Procs :
    ( /\ pc[p] = "done"
      /\ result[p].op = "getGameSession"
      /\ result[p].error = NULL ) =>
      /\ IsLedgerOf(result[p].value[1].guesses, input[p].session_id)
      /\ Ascending(result[p].value[1].guesses)

C19_Witness ==
  \E p \in Procs :
    /\ pc[p] = "done"
    /\ result[p].op = "getGameSession"
    /\ result[p].error = NULL
    /\ Len(result[p].value[1].guesses) = MaxGuesses
    /\ result[p].value[1].guesses[1].guess.guess_number = 1

\* C20: the GameState a successful makeGuess returns lists the session's
\* guesses in ascending guess_number order, in whatever order the select
\* returned the rows.
C20_GuessViewSorted ==
  \A p \in Procs :
    MadeGuess(p) =>
      /\ IsLedgerOf(result[p].value[1].guesses, input[p].session_id)
      /\ Ascending(result[p].value[1].guesses)

\* C21: the can_guess flag of every GameState makeGuess or getGameSession
\* returned is the negation of its session's is_completed, and on every
\* stored session row the two handlers compute the same flag, the negation
\* of is_completed.
C21_CanGuessIffActive ==
  /\ \A p \in Procs :
       ( /\ pc[p] = "done"
         /\ result[p].op \in {"makeGuess", "getGameSession"}
         /\ result[p].error = NULL ) =>
         result[p].value[1].can_guess = ~result[p].value[1].session.is_completed
  /\ \A s \in gameSessionTable :
       /\ makeGuessState(s, TargetOf(s), <<>>).can_guess = ~s.is_completed
       /\ getGameSessionState(s, TargetOf(s), <<>>).can_guess = ~s.is_completed

C21_Witness ==
  \E p \in Procs :
    /\ pc[p] = "done"
    /\ result[p].op = "getGameSession"
    /\ result[p].error = NULL
    /\ result[p].value[1].session.max_guesses = MaxGuesses
    /\ result[p].value[1].session.current_guesses = MaxGuesses
    /\ ~result[p].value[1].session.is_won
    /\ ~result[p].value[1].can_guess

\* C22: createGameSession with a session id in use fails with the
\* already-exists error and changes neither table; with a new session id it
\* adds exactly one game_session row, of that id and budget, with
\* current_guesses 0, not completed, not won, without completed_at, and the
\* session has no guess.
C22_CreateSessionOutcome ==
  [][\A p \in Procs :
       ( /\ pc[p] = "idle"
         /\ pc'[p] # "idle"
         /\ input'[p].max_guesses # 0 )
       => /\ pc'[p] = "done"
          /\ result'[p].op = "createGameSession"
          /\ IF SelectSession(input'[p].session_id) # {}
               THEN /\ result'[p].error = AlreadyExists
                    /\ UNCHANGED tables
               ELSE /\ result'[p].error = NULL
                    /\ UNCHANGED gameGuessTable
                    /\ Ledger(input'[p].session_id) = <<>>
                    /\ gameSessionTable \subseteq gameSessionTable'
                    /\ Cardinality(gameSessionTable') = Cardinality(gameSessionTable) + 1
                    /\ \A s \in gameSessionTable' \ gameSessionTable :
                         /\ s = result'[p].value[1]
                         /\ s.session_id = input'[p].session_id
                         /\ s.max_guesses = input'[p].max_guesses
                         /\ s.current_guesses = 0
                         /\ ~s.is_completed
                         /\ ~s.is_won
                         /\ s.completed_at = NULL]_vars

C22_Witness ==
  \E p \in Procs :
    /\ pc[p] = "done"
    /\ result[p].op = "createGameSession"
    /\ result[p].error = AlreadyExists
    /\ \E s \in SelectSession(input[p].session_id) :
         /\ s.current_guesses = 1
         /\ s.max_guesses # input[p].max_guesses
    /\ Cardinality(gameSessionTable) = 1

\* C23: every game_guess row stored in a state is stored unchanged, under the
\* same serial id, in the next state: no step of createGameSession, makeGuess
\* or getGameSession, however the requests interleave, changes or removes a
\* guess record.
C23_GuessRecordsImmutable ==
  [][\A i \in 1..Len(gameGuessTable) :
       /\ i <= Len(gameGuessTable')
       /\ gameGuessTable'[i] = gameGuessTable[i]]_vars

C23_Witness ==
  /\ Len(gameGuessTable) = 3
  /\ gameGuessTable[1].guess_number = gameGuessTable[2].guess_number
  /\ gameGuessTable[1].guessed_pokemon_id # gameGuessTable[2].guessed_pokemon_id
  /\ \E p \in Procs :
       /\ pc[p] = "done"
       /\ result[p].op = "makeGuess"
       /\ result[p].error = AlreadyCompleted

\* C24: a step of a makeGuess on one session, whether the call succeeds or
\* fails, leaves the game_session rows and the game_guess rows of every other
\* session unchanged, while requests on the other sessions are in flight.
C24_SessionsIndependent ==
  [][\A p \in Procs :
       ( /\ pc'[p] # pc[p]
         /\ pc'[p] # "idle"
         /\ input'[p].pokemon_name # NULL )
       => \A sid \in SessionIds \ {input'[p].session_id} :
            /\ SelectSession(sid)' = SelectSession(sid)
            /\ Ledger(sid)' = Ledger(sid)]_vars

C24_Witness ==
  /\ pc["p1"] = "selectUpdated"
  /\ result["p2"].op = "makeGuess"
  /\ result["p2"].error = PokemonNotFound
  /\ \E a \in SelectSession("s1"), b \in SelectSession("s2") :
       /\ a.current_guesses = 1
       /\ a.is_won
       /\ b.current_guesses = 1
       /\ ~b.is_completed
  /\ Len(Ledger("s1")) = 1
  /\ Len(Ledger("s2")) = 1

\* The two names differ at most in the case of their letters.
SameSpelling(a, b) == \E c \in Spellings : {a, b} \subseteq c

\* C25: on the table syncPokemonData fills, whose names are all lowercase,
\* a lookup with any spelling of a name finds exactly the rows of that name,
\* and two names that find a common row differ only in case.
C25_ResolutionIgnoresCase ==
  /\ [](\A i \in 1..Len(pokemonRows) :
          pokemonRows[i].name = toLowerCase(pokemonRows[i].name))
  /\ [](\A a, b \in LookupNames :
          SelectByName(pokemonRows, a) \cap SelectByName(pokemonRows, b) # {}
            => SameSpelling(a, b))
  /\ [][resolved' # resolved =>
          resolved'[1].rows =
            { pokemonRows[i] : i \in { j \in 1..Len(pokemonRows) :
                                         SameSpelling(pokemonRows[j].name,
                                                      resolved'[1].name) } }]_vars

C25_Witness ==
  /\ resolved # <<>>
  /\ resolved[1].name = "PIKACHU"
  /\ resolved[1].rows = {SyncedRow("Pikachu")}
  /\ pokeApi = <<"charizard", "Pikachu">>
  /\ Len(pokemonRows) = 2

\* The daily_pokemon rows bound to the day the request is about.
BoundTo(p) ==
  LET day == toISODate(IF input[p].date # NULL THEN input[p].date ELSE input[p].now)
  IN { d \in dailyPokemonTable : d.date = day }

\* C26: getDailyPokemon fails with the no-daily-pokemon error when no
\* daily_pokemon row is bound to the day asked for and otherwise returns the
\* pokemon row the day's daily_pokemon row refers to; it changes neither
\* table.
C26_DailyPokemonOutcome ==
  /\ [](\A p \in Procs :
          (pc[p] = "done" /\ result[p].op = "getDailyPokemon") =>
            IF BoundTo(p) = {}
              THEN result[p].error = NoDailyPokemon
              ELSE /\ result[p].error = NULL
                   /\ \E d \in BoundTo(p) : result[p].value[1].id = d.pokemon_id
                   /\ result[p].value[1] \in pokemonTable)
  /\ [][\A p \in Procs :
          result'[p].op = "getDailyPokemon" => UNCHANGED tables]_vars

C26_Witness ==
  \E p \in Procs :
    /\ pc[p] = "done"
    /\ result[p].op = "getDailyPokemon"
    /\ result[p].error = NoDailyPokemon
    /\ input[p].date = "2024-01-03"
    /\ gameGuessTable # <<>>

\* A step that changes the pokemon table keeps every row it held, as it was,
\* and adds one row, the name of which no row had.
InsertsOnlyNewNames ==
  pokemonRows' # pokemonRows =>
    /\ Len(pokemonRows') = Len(pokemonRows) + 1
    /\ SubSeq(pokemonRows', 1, Len(pokemonRows)) = pokemonRows
    /\ \A i \in 1..Len(pokemonRows) :
         pokemonRows[i].name # pokemonRows'[Len(pokemonRows')].name
    /\ pokemonRows'[Len(pokemonRows')].name
         = toLowerCase(pokemonRows'[Len(pokemonRows')].name)

\* A run of syncPokemonData that has ended inserted nothing: it returns
\* synced = 0, or failed, and the table is as long as when it began.
InsertedNothing ==
  /\ Len(pokemonRows) = sync.before
  /\ sync.result[1].synced = 0

C28_FailureOfOneEntityIsContained ==
  /\ [][Len(sync'.failed) > Len(sync.failed) =>
          IF sync'.failed[Len(sync'.failed)] = 0
            THEN /\ sync'.pc = "done"
                 /\ sync'.result[1].error = FetchFailure
                 /\ pokemonRows' = pokemonRows
                 /\ sync'.syncedCount = 0
            ELSE /\ sync'.failed[Len(sync'.failed)] = sync.index
                 /\ pokemonRows' = pokemonRows
                 /\ sync'.syncedCount = sync.syncedCount
                 /\ IF sync.index < Len(sync.results)
                      THEN /\ sync'.pc = "check"
                           /\ sync'.index = sync.index + 1
                      ELSE /\ sync'.pc = "done"
                           /\ sync'.result[1].error = NULL
                           /\ sync'.result[1].synced = sync.syncedCount]_vars
  /\ []((sync.pc = "done" /\ sync.result[1].error = NULL) =>
          /\ sync.processedCount = Len(pokeApi)
          /\ sync.result[1].synced = Len(pokemonRows) - sync.before
          /\ sync.result[1].synced + Len(sync.failed) <= Len(pokeApi))

C28_Witness ==
  /\ sync.pc = "done"
  /\ sync.result[1].error = NULL
  /\ sync.failed = <<1>>
  /\ sync.result[1].synced = 1
  /\ sync.processedCount = 2
  /\ pokemonRows = <<SyncedRow("charizard")>>

\* C29: for every guessed and target entity, the feedback object makeGuess
\* builds and the one generateFeedback returns are the same on all seven
\* fields.
C29_FeedbackImplementationsAgree ==
  feedbackOutput # <<>> =>
    /\ feedbackOutput[1].by = "makeGuess" =>
         feedbackOutput[1].feedback
           = generateFeedback(feedbackInput[1], feedbackInput[2])
    /\ feedbackOutput[1].by = "getGameSession" =>
         feedbackOutput[1].feedback
           = makeGuessFeedback(feedbackInput[1], feedbackInput[2])

C29_Witness ==
  /\ feedbackOutput # <<>>
  /\ feedbackOutput[1].by = "makeGuess"
  /\ feedbackOutput[1].feedback.evolution_count = "higher"
  /\ feedbackOutput[1].feedback.generation = "lower"
  /\ feedbackInput[1].type2 = NULL
  /\ feedbackInput[2].type2 = NULL

\* C30: whenever no request is in flight, every session has as many
\* game_guess rows as its current_guesses says, and no more than its
\* max_guesses, however the makeGuess calls on it interleaved.
C30_LedgerMatchesCounter ==
  (\A p \in Procs : pc[p] \in {"idle", "done"}) =>
    \A s \in gameSessionTable :
      /\ Len(Ledger(s.session_id)) <= s.max_guesses
      /\ Len(Ledger(s.session_id)) = s.current_guesses

\* The step request p takes is a step of a makeGuess call.
MakeGuessStep(p) ==
  /\ pc'[p] # pc[p]
  /\ pc'[p] # "idle"
  /\ input'[p].pokemon_name # NULL

\* The invariant part of C31: when a makeGuess has returned a GameState, the
\* session's ledger is one longer than the counter the call read, its last
\* record carries the next number and the verdict on the candidate, and the
\* session row differs from the row read in its counter, which is one more,
\* and in nothing of max_guesses, daily_pokemon_id and created_at.
C31_EffectAtReturn ==
  \A p \in Procs :
    MadeGuess(p) =>
      LET read == gameSessionResults[p][1].game_session
          n == read.current_guesses
          ledger == Ledger(read.session_id)
      IN /\ Len(ledger) = n + 1
         /\ ledger[n + 1].guess_number = n + 1
         /\ ledger[n + 1].guessed_pokemon_id = guessedPokemonResults[p][1].id
         /\ ledger[n + 1].is_correct
              = (guessedPokemonResults[p][1].id = TargetOf(read).id)
         /\ \A s \in SelectSession(read.session_id) :
              /\ s.current_guesses = n + 1
              /\ s.max_guesses = read.max_guesses
              /\ s.daily_pokemon_id = read.daily_pokemon_id
              /\ s.created_at = read.created_at

\* The action part of C31: the insert of a makeGuess appends one record,
\* numbered one more than the session's counter, to game_guess and changes no
\* stored record and no session; its update changes no guess record, no other
\* session and, of its own session, neither max_guesses, daily_pokemon_id nor
\* created_at, and adds one to the counter; its other steps change no table.
C31_EffectOfSteps ==
  \A p \in Procs :
    MakeGuessStep(p) =>
      IF pc[p] = "insertGuess"
        THEN /\ UNCHANGED gameSessionTable
             /\ Len(gameGuessTable') = Len(gameGuessTable) + 1
             /\ SubSeq(gameGuessTable', 1, Len(gameGuessTable)) = gameGuessTable
             /\ \A s \in SelectSession(input[p].session_id) :
                  LET new == gameGuessTable'[Len(gameGuessTable')]
                  IN /\ new.session_id = s.session_id
                     /\ new.guess_number = s.current_guesses + 1
                     /\ new.is_correct
                          = (guessedPokemonResults[p][1].id = TargetOf(s).id)
      ELSE IF pc[p] = "updateSession"
        THEN /\ UNCHANGED gameGuessTable
             /\ Cardinality(gameSessionTable') = Cardinality(gameSessionTable)
             /\ \A s \in gameSessionTable :
                  IF s.session_id = input[p].session_id
                    THEN \E t \in gameSessionTable' :
                           /\ t.session_id = s.session_id
                           /\ t.current_guesses = s.current_guesses + 1
                           /\ t.max_guesses = s.max_guesses
                           /\ t.daily_pokemon_id = s.daily_pokemon_id
                           /\ t.created_at = s.created_at
                    ELSE s \in gameSessionTable'
      ELSE UNCHANGED tables

\* C31: with requests served one after the other, a makeGuess that succeeds
\* on an active session whose counter is n appends exactly one guess record,
\* numbered n + 1 and correct iff the candidate is the target, sets the
\* counter to n + 1, and changes no other guess record and neither
\* max_guesses, the daily target reference nor the creation time.
C31_SuccessfulGuessEffect ==
  /\ []C31_EffectAtReturn
  /\ [][C31_EffectOfSteps]_vars

C31_Witness ==
  \E p \in Procs :
    /\ MadeGuess(p)
    /\ gameSessionResults[p][1].game_session.current_guesses = 1
    /\ Len(Ledger(input[p].session_id)) = 2
    /\ ~Ledger(input[p].session_id)[1].is_correct
    /\ Ledger(input[p].session_id)[2].is_correct
    /\ Cardinality(gameSessionTable) = 2

\* C32: with requests served one after the other, whenever no admission is
\* between its insert and its update, a session is won iff its ledger holds a
\* correct guess, and a correct guess is the last record of its ledger.
C32_WonIffLastGuessCorrect ==
  (\A p \in Procs : pc[p] # "updateSession") =>
    \A s \in gameSessionTable :
      LET ledger == Ledger(s.session_id)
      IN /\ s.is_won <=> \E i \in 1..Len(ledger) : ledger[i].is_correct
         /\ \A i \in 1..Len(ledger) : ledger[i].is_correct => i = Len(ledger)

C32_Witness ==
  /\ \E p \in Procs :
       /\ pc[p] = "done"
       /\ result[p].op = "makeGuess"
       /\ result[p].error = AlreadyCompleted
  /\ \E s \in gameSessionTable :
       /\ s.is_won
       /\ s.current_guesses < s.max_guesses
       /\ Len(Ledger(s.session_id)) = 1
       /\ Ledger(s.session_id)[1].is_correct
  /\ \E s \in gameSessionTable :
       /\ ~s.is_won
       /\ Len(Ledger(s.session_id)) = 2

\* The safety part of C33 at a return: the GameState of a successful
\* makeGuess shows a counter that is the number of the session's records, at
\* most max_guesses, and a session that is completed once they are equal.
C33_SuccessWithinBudget ==
  \A p \in Procs :
    MadeGuess(p) =>
      LET v == result[p].value[1]
      IN /\ v.session.current_guesses = Len(Ledger(v.session.session_id))
         /\ v.session.current_guesses <= v.session.max_guesses
         /\ v.session.current_guesses = v.session.max_guesses =>
              /\ v.session.is_completed
              /\ ~v.can_guess
              /\ v.session \in gameSessionTable

\* The safety part of C33 at an admission: a makeGuess passes the admission
\* checks only on a session with fewer than max_guesses records.
C33_AdmittedWithinBudget ==
  \A p \in Procs :
    (pc[p] = "idle" /\ pc'[p] = "selectPokemon") =>
      \A s \in SelectSession(input'[p].session_id) :
        Len(Ledger(s.session_id)) < s.max_guesses

\* A makeGuess with a name of the catalog arrives for the session.
ResolvableGuessArrives(sid) ==
  \E p \in Procs, name \in PokemonNames :
    /\ ~Unresolvable(name)
    /\ makeGuessSelectSession(p, sid, name)

\* C33: with calls served one after the other, every successful makeGuess is
\* admitted to a session with fewer than max_guesses records and adds one, so
\* at most max_guesses succeed; after the max_guesses-th the session is
\* completed; and a session that keeps receiving resolvable guesses is
\* eventually completed.
C33_TerminatesWithinBudget ==
  /\ []C33_SuccessWithinBudget
  /\ [][C33_AdmittedWithinBudget]_vars
  /\ \A sid \in ContendedSessionIds :
       ([]<><<ResolvableGuessArrives(sid)>>_vars) =>
         [](SelectSession(sid) # {} =>
              <>(\E s \in SelectSession(sid) : s.is_completed))

C33_Witness ==
  /\ \E p \in Procs :
       /\ MadeGuess(p)
       /\ ~GuessedTarget(p)
       /\ result[p].value[1].session.current_guesses = 2
       /\ result[p].value[1].session.max_guesses = 2
       /\ Len(Ledger(input[p].session_id)) = 2
  /\ \A s \in gameSessionTable : s.is_completed /\ ~s.is_won

\* The failure conditions of a makeGuess(sid, name) in the current state, in
\* the order claimed: the first that holds, or NULL.
FirstFailure(sid, name) ==
  IF SelectSession(sid) = {} THEN SessionNotFound
  ELSE IF \E s \in SelectSession(sid) : s.is_completed THEN AlreadyCompleted
  ELSE IF \E s \in SelectSession(sid) : s.current_guesses >= s.max_guesses
    THEN MaximumGuessesReached
  ELSE IF Unresolvable(name) THEN PokemonNotFound
  ELSE NULL

\* The number of failure conditions that hold for makeGuess(sid, name).
FailureCount(sid, name) ==
  Cardinality(
    { c \in {SessionNotFound, AlreadyCompleted, MaximumGuessesReached, PokemonNotFound} :
        \/ c = SessionNotFound /\ SelectSession(sid) = {}
        \/ c = AlreadyCompleted /\ \E s \in SelectSession(sid) : s.is_completed
        \/ c = MaximumGuessesReached
             /\ \E s \in SelectSession(sid) : s.current_guesses >= s.max_guesses
        \/ c = PokemonNotFound /\ Unresolvable(name) })

\* C34: a makeGuess fails with the first failure condition that holds, in the
\* order session not found, already completed, maximum guesses reached,
\* pokemon not found, whatever later conditions hold too; when none holds it
\* goes on to its insert.
C34_FailureOrder ==
  [][\A p \in Procs :
       MakeGuessStep(p) =>
         LET first == FirstFailure(input'[p].session_id, input'[p].pokemon_name)
         IN /\ pc[p] = "idle" =>
                 IF first \in {NULL, PokemonNotFound}
                   THEN pc'[p] = "selectPokemon"
                   ELSE /\ pc'[p] = "done"
                        /\ result'[p].op = "makeGuess"
                        /\ result'[p].error = first
            /\ pc[p] = "selectPokemon" =>
                 IF first = PokemonNotFound
                   THEN /\ pc'[p] = "done"
                        /\ result'[p].op = "makeGuess"
                        /\ result'[p].error = PokemonNotFound
                   ELSE /\ first = NULL
                        /\ pc'[p] = "insertGuess"]_vars

C34_Witness ==
  \E p \in Procs :
    /\ pc[p] = "done"
    /\ result[p].op = "makeGuess"
    /\ result[p].error = AlreadyCompleted
    /\ FailureCount(input[p].session_id, input[p].pokemon_name) = 3
    /\ \E s \in SelectSession(input[p].session_id) : ~s.is_won

\* The step request p takes is a step of a getGameSession call.
GetGameSessionStep(p) ==
  /\ pc'[p] # pc[p]
  /\ pc'[p] # "idle"
  /\ \/ pc'[p] = "viewGuesses"
     \/ pc[p] = "viewGuesses"
     \/ result'[p].op = "getGameSession"

\* C35: no step of a getGameSession, on a session that exists or on one that
\* does not, changes a game_session or a game_guess row; and two
\* getGameSession calls on one session with nothing but getGameSession
\* between them have the same outcome: the same error, or the same GameState.
C35_ViewIsReadOnly ==
  /\ [][\A p \in Procs : GetGameSessionStep(p) => UNCHANGED tables]_vars
  /\ [](\A p, q \in Procs :
          ( /\ pc[p] = "done" /\ result[p].op = "getGameSession"
            /\ pc[q] = "done" /\ result[q].op = "getGameSession"
            /\ input[p].session_id = input[q].session_id )
          => result[p] = result[q])

C35_Witness ==
  /\ \A p \in Procs :
       /\ pc[p] = "done"
       /\ result[p].op = "getGameSession"
       /\ result[p].error = NULL
       /\ Len(result[p].value[1].guesses) = 2
  /\ Len(gameGuessTable) = 2

\* The verdict on field f of a guessed entity against a target: on the
\* numeric fields where the target lies, on the others whether they agree.
VerdictOn(f, guessed, target) ==
  IF guessed[f] = target[f] THEN "correct"
  ELSE IF f \in NumericFields
    THEN (IF target[f] > guessed[f] THEN "higher" ELSE "lower")
  ELSE "incorrect"

\* C36: the GameState getGameSession returns lists exactly the game_guess
\* rows of its session, each once and none of another session, each with the
\* pokemon row it refers to and with the feedback of that row against the
\* target of the session's own daily_pokemon row; with requests served one
\* after the other their number is the session's current_guesses.
C36_ViewPairsGuessesWithFeedback ==
  \A p \in Procs :
    ( /\ pc[p] = "done"
      /\ result[p].op = "getGameSession"
      /\ result[p].error = NULL ) =>
      LET v == result[p].value[1]
      IN /\ v.session \in SelectSession(input[p].session_id)
         /\ IsLedgerOf(v.guesses, input[p].session_id)
         /\ Len(v.guesses) = v.session.current_guesses
         /\ \A i \in 1..Len(v.guesses) :
              /\ v.guesses[i].guess.session_id = input[p].session_id
              /\ v.guesses[i].pokemon = PokemonById(v.guesses[i].guess.guessed_pokemon_id)
              /\ DOMAIN v.guesses[i].feedback = CategoricalFields \cup NumericFields
              /\ \A f \in CategoricalFields \cup NumericFields :
                   v.guesses[i].feedback[f]
                     = VerdictOn(f, v.guesses[i].pokemon, TargetOf(v.session))

C36_Witness ==
  \E p \in Procs :
    /\ pc[p] = "done"
    /\ result[p].op = "getGameSession"
    /\ result[p].error = NULL
    /\ Len(result[p].value[1].guesses) = 1
    /\ result[p].value[1].guesses[1].feedback.evolution_count = "higher"
    /\ Len(gameGuessTable) = 3
    /\ \E s, t \in gameSessionTable : s.daily_pokemon_id # t.daily_pokemon_id

\* C37: a call of fetchWithRetry makes at most retries attempts; an attempt
\* that gets an ok response is the last and its response is returned; when
\* every attempt fails (a rejected fetch, a status that is not ok, or 429
\* each time) the call ends after retries attempts with an error, never with
\* undefined; and every call ends.
C37_FetchEndsWithinRetries ==
  /\ [](Len(fetch.attempts) <= retries)
  /\ [](\A k \in 1..Len(fetch.attempts) :
          fetch.attempts[k] = "ok" =>
            /\ k = Len(fetch.attempts)
            /\ fetch.pc = "done"
            /\ fetch.result = "response")
  /\ [](fetch.pc = "done" =>
          \/ /\ fetch.result = "response"
             /\ fetch.attempts[Len(fetch.attempts)] = "ok"
          \/ /\ fetch.result \in {FetchFailure, MaxRetriesExceeded}
             /\ Len(fetch.attempts) = retries
             /\ \A k \in 1..retries : fetch.attempts[k] # "ok")
  /\ (fetch.pc # "idle") ~> (fetch.pc = "done")

C37_Witness ==
  /\ fetch.pc = "done"
  /\ fetch.by = "sync_pokemon_data"
  /\ fetch.attempts = <<"error", "429", "429">>
  /\ fetch.result = MaxRetriesExceeded

\* The number of evolves_to steps from the root of the chain to the node.
RECURSIVE Depth(_, _)
Depth(chain, node) ==
  IF chain[node] = 0 THEN 0 ELSE 1 + Depth(chain, chain[node])

\* C38: the evolution_count every implementation of syncPokemonData stores
\* for a species is the depth of its node in the chain (0 for the root) and
\* is_final_evolution tells that the node has no evolution; for a species
\* not in the chain the count is 0. Chains of every shape, branching ones
\* too.
C38_EvolutionCountIsDepth ==
  evolution.result # <<>> =>
    IF evolution.targetName \in 1..Len(evolution.chain)
      THEN /\ evolution.result[1].evolution_count
                = Depth(evolution.chain, evolution.targetName)
           /\ evolution.result[1].is_final_evolution
                = (\A j \in 1..Len(evolution.chain) :
                     evolution.chain[j] # evolution.targetName)
      ELSE evolution.result[1].evolution_count = 0

====
